---- MODULE Spec2Model ----
(***************************************************************************)
(* Model of the procurement analytics front end: the pure data pipeline of *)
(* services/dataService.ts (cleanseOutliers, the CSV codecs), the          *)
(* combination enumeration of App.tsx, the error categories of the AI      *)
(* service, and the application state of both tabs: the forecasts and the  *)
(* negotiation benchmark.                                                  *)
(*                                                                         *)
(* Pure functions are operators.  They are exercised by small harness      *)
(* specifications: Init draws the argument (arg), each action applies one  *)
(* function and stores what it returned (ret, ret2), pc names the last     *)
(* function applied.  The application state of App.tsx is the remaining    *)
(* variables; Spec is the application, in which every handler is an        *)
(* action and an awaited call is a value that a later action completes;    *)
(* SpecBenchmark is the application with the benchmark tab in use, and     *)
(* SpecLoading the handlers of both tabs that set the loading flags.       *)
(***************************************************************************)
EXTENDS Integers, Sequences, FiniteSets, TLC

VARIABLES
    pc,        \* harness: "start", then the name of the last step taken
    arg,       \* harness: the argument drawn by Init
    ret,       \* harness: result of the first call
    ret2,      \* harness: result of the second call (re-application, decode)
    data,             \* App.tsx state: the uploaded records
    cleansedData,     \* App.tsx state
    outlierCount,     \* App.tsx state
    isCleansed,       \* App.tsx state
    filters,          \* App.tsx state: the selected partNumber, vendor, country
    forecast,         \* App.tsx state: the displayed forecast, <<>> for null
    allForecasts,     \* App.tsx state
    loading,          \* App.tsx state
    bulkLoading,      \* App.tsx state
    bulkProgress,     \* App.tsx state
    error,            \* App.tsx state: the message shown, <<>> for null
    reading,          \* DataUpload: the file a FileReader is reading, if any
    pendingForecast,  \* the call of getForecastFromAI awaited, if any
    pendingBulk,      \* the call of getBulkForecastsFromAI awaited, if any, with
                      \* its loop index, its results and the errors it caught
    proposedRates,      \* App.tsx state: the negotiated rates loaded
    benchmarks,         \* App.tsx state
    uploadedForecasts,  \* App.tsx state
    forecastSource,     \* App.tsx state: "system" or "upload"
    readingForecast,    \* the forecast files FileReaders are reading
    pendingNegotiation, \* the runs of handleNegotiationUpload reading files
    pendingBenchmark    \* the calls of getBenchmarkAnalysis awaited, by confidenceLevel

harnessVars == <<pc, arg, ret, ret2>>

\* the state of the benchmark tab
benchVars ==
    <<proposedRates, benchmarks, uploadedForecasts, forecastSource,
      readingForecast, pendingNegotiation, pendingBenchmark>>

appVars ==
    <<data, cleansedData, outlierCount, isCleansed, filters, forecast,
      allForecasts, loading, bulkLoading, bulkProgress, error, reading,
      pendingForecast, pendingBulk, benchVars>>

vars == <<harnessVars, appVars>>

\* the useState initial values of App.tsx; nothing is being read or awaited
AppInit ==
    /\ data = <<>>
    /\ cleansedData = <<>>
    /\ outlierCount = 0
    /\ isCleansed = FALSE
    /\ filters = [partNumber |-> "", vendor |-> "", country |-> ""]
    /\ forecast = <<>>
    /\ allForecasts = <<>>
    /\ loading = FALSE
    /\ bulkLoading = FALSE
    /\ bulkProgress = 0
    /\ error = <<>>
    /\ reading = <<>>
    /\ pendingForecast = <<>>
    /\ pendingBulk = <<>>
    /\ proposedRates = <<>>
    /\ benchmarks = <<>>
    /\ uploadedForecasts = <<>>
    /\ forecastSource = "system"
    /\ readingForecast = <<>>
    /\ pendingNegotiation = <<>>
    /\ pendingBenchmark = <<>>

(***************************************************************************)
(* Bounds of the model.                                                    *)
(***************************************************************************)
MaxLen == 5
MaxPrice == 3
MaxRecords == 3
MaxRows == 3

(***************************************************************************)
(* Generic helpers.                                                        *)
(***************************************************************************)
Range(s) == {s[i] : i \in 1..Len(s)}

SeqsUpTo(S, n) == UNION {[1..k -> S] : k \in 0..n}

\* insertion of x into an ascending sequence of numbers, after its equals
RECURSIVE InsertAsc(_, _)
InsertAsc(x, s) ==
    IF s = <<>> THEN <<x>>
    ELSE IF x < Head(s) THEN <<x>> \o s
         ELSE <<Head(s)>> \o InsertAsc(x, Tail(s))

\* Array.prototype.sort((a, b) => a - b) on finite numbers
RECURSIVE SortAsc(_)
SortAsc(s) ==
    IF s = <<>> THEN <<>> ELSE InsertAsc(s[Len(s)], SortAsc(SubSeq(s, 1, Len(s) - 1)))

(***************************************************************************)
(* Text.  A string is a sequence of one-character strings; undefined is a  *)
(* value of its own.  A number is a fraction n/d in lowest terms, d > 0;   *)
(* NaN is 0/0.  Floating-point rounding is not modelled.                   *)
(***************************************************************************)
Undefined == <<"#undefined">>

UpperCase ==
    << "A", "B", "C", "D", "E", "F", "G", "H", "I", "J", "K", "L", "M",
       "N", "O", "P", "Q", "R", "S", "T", "U", "V", "W", "X", "Y", "Z" >>
LowerCase ==
    << "a", "b", "c", "d", "e", "f", "g", "h", "i", "j", "k", "l", "m",
       "n", "o", "p", "q", "r", "s", "t", "u", "v", "w", "x", "y", "z" >>
Digits == << "0", "1", "2", "3", "4", "5", "6", "7", "8", "9" >>

WhiteSpace == {" ", "\t", "\r", "\n"}

IsDigit(c) == \E i \in 1..10 : Digits[i] = c

DigitValue(c) == (CHOOSE i \in 1..10 : Digits[i] = c) - 1

\* String.prototype.toLowerCase
ToLowerCase(s) ==
    [i \in 1..Len(s) |->
        IF \E k \in 1..26 : UpperCase[k] = s[i]
        THEN LowerCase[CHOOSE k \in 1..26 : UpperCase[k] = s[i]]
        ELSE s[i]]

\* String.prototype.includes
Includes(s, sub) ==
    \E i \in 0..(Len(s) - Len(sub)) : SubSeq(s, i + 1, i + Len(sub)) = sub

\* String.prototype.trim
RECURSIVE TrimStart(_)
TrimStart(s) ==
    IF s # <<>> /\ Head(s) \in WhiteSpace THEN TrimStart(Tail(s)) ELSE s

RECURSIVE TrimEnd(_)
TrimEnd(s) ==
    IF s # <<>> /\ s[Len(s)] \in WhiteSpace
    THEN TrimEnd(SubSeq(s, 1, Len(s) - 1)) ELSE s

Trim(s) == TrimEnd(TrimStart(s))

\* String.prototype.split(sep), sep one character
RECURSIVE Split(_, _)
Split(s, sep) ==
    IF \A i \in 1..Len(s) : s[i] # sep THEN <<s>>
    ELSE LET i == CHOOSE k \in 1..Len(s) :
                      s[k] = sep /\ \A j \in 1..(k - 1) : s[j] # sep
         IN  <<SubSeq(s, 1, i - 1)>> \o Split(SubSeq(s, i + 1, Len(s)), sep)

\* Array.prototype.join(sep) on strings
RECURSIVE Join(_, _)
Join(ss, sep) ==
    IF ss = <<>> THEN <<>>
    ELSE IF Len(ss) = 1 THEN ss[1]
         ELSE ss[1] \o <<sep>> \o Join(Tail(ss), sep)

\* replace(/^"|"$/g, ''): one leading and one trailing double quote
StripQuotes(v) ==
    LET a == IF v # <<>> /\ Head(v) = "\"" THEN Tail(v) ELSE v
    IN  IF a # <<>> /\ a[Len(a)] = "\"" THEN SubSeq(a, 1, Len(a) - 1) ELSE a

\* replace(/[()]/g, '')
StripParens(h) ==
    LET NotParen(c) == c \notin {"(", ")"} IN SelectSeq(h, NotParen)

\* JavaScript truthiness of a string or undefined
Truthy(v) == v # Undefined /\ v # <<>>

\* a || b
Or(a, b) == IF Truthy(a) THEN a ELSE b

(***************************************************************************)
(* Numbers.                                                                *)
(***************************************************************************)
RECURSIVE GCD(_, _)
GCD(a, b) == IF b = 0 THEN a ELSE GCD(b, a % b)

Abs(x) == IF x < 0 THEN -x ELSE x

NaN == [n |-> 0, d |-> 0]

Zero == [n |-> 0, d |-> 1]

\* n/d in lowest terms, d # 0
Frac(n, d) ==
    LET g == GCD(Abs(n), Abs(d))
        sg == IF d < 0 THEN -1 ELSE 1
    IN  [n |-> sg * (n \div g), d |-> sg * (d \div g)]

Whole(n) == [n |-> n, d |-> 1]

IsNaN(x) == x.d = 0

\* a + b
Plus(a, b) ==
    IF IsNaN(a) \/ IsNaN(b) THEN NaN ELSE Frac(a.n * b.d + b.n * a.d, a.d * b.d)

\* a - b
Minus(a, b) ==
    IF IsNaN(a) \/ IsNaN(b) THEN NaN ELSE Frac(a.n * b.d - b.n * a.d, a.d * b.d)

\* a / k for an array length k >= 1
DividedBy(a, k) == IF IsNaN(a) THEN NaN ELSE Frac(a.n, a.d * k)

\* a > 0, a < 0 (false for NaN)
Positive(a) == ~IsNaN(a) /\ a.n > 0
Negative(a) == ~IsNaN(a) /\ a.n < 0

RECURSIVE Pow10(_)
Pow10(k) == IF k = 0 THEN 1 ELSE 10 * Pow10(k - 1)

\* the longest prefix of s made of decimal digits
RECURSIVE DigitPrefix(_)
DigitPrefix(s) ==
    IF s # <<>> /\ IsDigit(Head(s)) THEN <<Head(s)>> \o DigitPrefix(Tail(s))
    ELSE <<>>

RECURSIVE DigitsValue(_)
DigitsValue(ds) ==
    IF ds = <<>> THEN 0
    ELSE 10 * DigitsValue(SubSeq(ds, 1, Len(ds) - 1)) + DigitValue(ds[Len(ds)])

\* sign and the rest of a trimmed numeric string
SignOf(t) == IF t # <<>> /\ Head(t) = "-" THEN -1 ELSE 1
Unsigned(t) == IF t # <<>> /\ Head(t) \in {"-", "+"} THEN Tail(t) ELSE t

\* parseFloat(string): the longest decimal prefix after leading white
\* space, NaN when there is none (exponents and Infinity are not modelled)
ParseFloatStr(s) ==
    LET t    == TrimStart(s)
        u    == Unsigned(t)
        ip   == DigitPrefix(u)
        rest == SubSeq(u, Len(ip) + 1, Len(u))
        fp   == IF rest # <<>> /\ Head(rest) = "." THEN DigitPrefix(Tail(rest))
                ELSE <<>>
    IN  IF ip = <<>> /\ fp = <<>> THEN NaN
        ELSE Frac(SignOf(t) * (DigitsValue(ip) * Pow10(Len(fp)) + DigitsValue(fp)),
                  Pow10(Len(fp)))

\* parseInt(string): the leading decimal digits after white space and sign,
\* NaN when there is none (the 0x prefix is not modelled)
ParseIntStr(s) ==
    LET t  == TrimStart(s)
        ip == DigitPrefix(Unsigned(t))
    IN  IF ip = <<>> THEN NaN ELSE Whole(SignOf(t) * DigitsValue(ip))

\* parseFloat(a || 0), parseInt(a || 0) where a is a string or undefined
ParseFloat(v) == IF Truthy(v) THEN ParseFloatStr(v) ELSE Zero
ParseInt(v) == IF Truthy(v) THEN ParseIntStr(v) ELSE Zero

RECURSIVE NatToString(_)
NatToString(k) ==
    IF k < 10 THEN <<Digits[k + 1]>>
    ELSE NatToString(k \div 10) \o <<Digits[(k % 10) + 1]>>

\* String(x) for NaN and for finite decimals with at most 2 decimals
RECURSIVE FracDigits(_, _)
FracDigits(r, d) ==
    IF r = 0 THEN <<>>
    ELSE <<Digits[((r * 10) \div d) + 1]>> \o FracDigits((r * 10) % d, d)

NumberToString(x) ==
    IF IsNaN(x) THEN <<"N", "a", "N">>
    ELSE LET a  == Abs(x.n)
             ip == NatToString(a \div x.d)
             fp == FracDigits(a % x.d, x.d)
         IN  (IF x.n < 0 THEN <<"-">> ELSE <<>>)
             \o ip \o (IF fp = <<>> THEN <<>> ELSE <<".">> \o fp)


(***************************************************************************)
(* The decoders of services/dataService.ts.                                *)
(***************************************************************************)
\* the property names the decoders read
Column ==
    [ part_number |->
          << "p", "a", "r", "t", " ", "n", "u", "m", "b", "e", "r" >>,
      partnumber |->
          << "p", "a", "r", "t", "n", "u", "m", "b", "e", "r" >>,
      sku |->
          << "s", "k", "u" >>,
      vendor |->
          << "v", "e", "n", "d", "o", "r" >>,
      country |->
          << "c", "o", "u", "n", "t", "r", "y" >>,
      date |->
          << "d", "a", "t", "e" >>,
      proposed_price |->
          << "p", "r", "o", "p", "o", "s", "e", "d", " ", "p", "r", "i", "c", "e" >>,
      price |->
          << "p", "r", "i", "c", "e" >>,
      proposed_lead_time |->
          << "p", "r", "o", "p", "o", "s", "e", "d", " ", "l", "e", "a", "d", " ", "t", "i", "m", "e" >>,
      lead_time |->
          << "l", "e", "a", "d", " ", "t", "i", "m", "e" >>,
      predicted_price |->
          << "p", "r", "e", "d", "i", "c", "t", "e", "d", " ", "p", "r", "i", "c", "e" >>,
      predicted_lead_time |->
          << "p", "r", "e", "d", "i", "c", "t", "e", "d", " ", "l", "e", "a", "d", " ", "t", "i", "m", "e" >>,
      confidence_upper |->
          << "c", "o", "n", "f", "i", "d", "e", "n", "c", "e", " ", "u", "p", "p", "e", "r" >>,
      confidence_lower |->
          << "c", "o", "n", "f", "i", "d", "e", "n", "c", "e", " ", "l", "o", "w", "e", "r" >>,
      usd_pricing |->
          << "u", "s", "d", " ", "p", "r", "i", "c", "i", "n", "g" >>,
      usd_price |->
          << "u", "s", "d", " ", "p", "r", "i", "c", "e" >>,
      quantity |->
          << "q", "u", "a", "n", "t", "i", "t", "y" >>,
      qty |->
          << "q", "t", "y" >>,
      lead_time_days |->
          << "l", "e", "a", "d", " ", "t", "i", "m", "e", " ", "d", "a", "y", "s" >>,
      leadtime |->
          << "l", "e", "a", "d", "t", "i", "m", "e" >> ]
S_undefined ==
    << "u", "n", "d", "e", "f", "i", "n", "e", "d" >>

\* new Date().toISOString() at parse time: a value of the clock
Now == <<"#now">>

\* csvText.split('\n')
LinesOf(csvText) == Split(csvText, "\n")

\* lines[0].split(',').map(h => h.trim().toLowerCase())
HeadersOf(line) ==
    LET cells == Split(line, ",")
    IN  [i \in 1..Len(cells) |-> ToLowerCase(Trim(cells[i]))]

\* parseCSV: ... .replace(/[()]/g, '')
HeadersOfCSV_KeepParens(line) == HeadersOf(line)

HeadersOfCSV(line) ==
    LET hs == HeadersOf(line) IN [i \in 1..Len(hs) |-> StripParens(hs[i])]

\* line.split(',').map(v => v.trim().replace(/^"|"$/g, ''))
ValuesOf_Untrimmed(line) == Split(line, ",")

ValuesOf(line) ==
    LET cells == Split(line, ",")
    IN  [i \in 1..Len(cells) |-> StripQuotes(Trim(cells[i]))]

\* lines.slice(1).filter(l => l.trim())
DataLines_KeepBlank(lines) == Tail(lines)

DataLines(lines) ==
    LET NotBlank(l) == Trim(l) # <<>> IN SelectSeq(Tail(lines), NotBlank)

\* obj[name] after headers.forEach((header, i) => obj[header] = values[i])
Get(headers, values, name) ==
    LET at == {i \in 1..Len(headers) : headers[i] = name}
    IN  IF at = {} THEN Undefined
        ELSE LET i == CHOOSE k \in at : \A j \in at : j <= k
             IN  IF i <= Len(values) THEN values[i] ELSE Undefined

\* lines 99-105
NegotiatedRateOf(headers, values) ==
    [partNumber       |-> Or(Get(headers, values, Column.part_number),
                             Get(headers, values, Column.partnumber)),
     vendor           |-> Get(headers, values, Column.vendor),
     country          |-> Get(headers, values, Column.country),
     proposedPrice    |-> ParseFloat(Or(Get(headers, values, Column.proposed_price),
                                        Get(headers, values, Column.price))),
     proposedLeadTime |-> ParseInt(Or(Get(headers, values, Column.proposed_lead_time),
                                      Get(headers, values, Column.lead_time)))]

\* lines 91-107
parseNegotiationCSV(csvText) ==
    LET lines == LinesOf(csvText)
    IN  IF Len(lines) < 2 THEN <<>>
        ELSE LET headers == HeadersOf(lines[1])
                 rows    == DataLines(lines)
             IN  [r \in 1..Len(rows) |-> NegotiatedRateOf(headers, ValuesOf(rows[r]))]

\* lines 183-192; id stands for crypto.randomUUID()
HistoricalDataOf(headers, values, id) ==
    [id           |-> id,
     partNumber   |-> Or(Or(Get(headers, values, Column.part_number),
                            Get(headers, values, Column.partnumber)),
                         Get(headers, values, Column.sku)),
     country      |-> Get(headers, values, Column.country),
     usdPrice     |-> ParseFloat(Or(Or(Get(headers, values, Column.usd_pricing),
                                       Get(headers, values, Column.usd_price)),
                                    Get(headers, values, Column.price))),
     quantity     |-> ParseInt(Or(Get(headers, values, Column.quantity),
                                  Get(headers, values, Column.qty))),
     leadTimeDays |-> ParseInt(Or(Or(Get(headers, values, Column.lead_time_days),
                                     Get(headers, values, Column.lead_time)),
                                  Get(headers, values, Column.leadtime))),
     vendor       |-> Get(headers, values, Column.vendor),
     date         |-> Or(Get(headers, values, Column.date), Now)]

\* lines 175-194
parseCSV(csvText) ==
    LET lines == LinesOf(csvText)
    IN  IF Len(lines) < 2 THEN <<>>
        ELSE LET headers == HeadersOfCSV(lines[1])
                 rows    == DataLines(lines)
             IN  [r \in 1..Len(rows) |-> HistoricalDataOf(headers, ValuesOf(rows[r]), r)]

\* lines 118-127
RawPointOf(headers, values) ==
    [partNumber  |-> Or(Get(headers, values, Column.part_number),
                        Get(headers, values, Column.partnumber)),
     vendor      |-> Get(headers, values, Column.vendor),
     country     |-> Get(headers, values, Column.country),
     date        |-> Get(headers, values, Column.date),
     predictedPrice    |-> ParseFloat(Get(headers, values, Column.predicted_price)),
     predictedLeadTime |-> ParseInt(Get(headers, values, Column.predicted_lead_time)),
     confidenceIntervalUpper |-> ParseFloat(Get(headers, values, Column.confidence_upper)),
     confidenceIntervalLower |-> ParseFloat(Get(headers, values, Column.confidence_lower))]

\* lines 110-128; <<>> stands for the early return of line 111
RawPoints(csvText) ==
    LET lines == LinesOf(csvText)
    IN  IF Len(lines) < 2 THEN <<>>
        ELSE LET headers == HeadersOf(lines[1])
                 rows    == DataLines(lines)
             IN  [r \in 1..Len(rows) |-> RawPointOf(headers, ValuesOf(rows[r]))]

\* `${x}` for a string or undefined
TemplateString(v) == IF v = Undefined THEN S_undefined ELSE v

\* line 133: `${p.partNumber}|${p.vendor}|${p.country}`
GroupKey(p) ==
    TemplateString(p.partNumber) \o <<"|">> \o TemplateString(p.vendor)
        \o <<"|">> \o TemplateString(p.country)

\* lines 150-156
ForecastPointOf(p) ==
    [date |-> p.date,
     predictedPrice |-> p.predictedPrice,
     predictedLeadTime |-> p.predictedLeadTime,
     confidenceIntervalUpper |-> p.confidenceIntervalUpper,
     confidenceIntervalLower |-> p.confidenceIntervalLower]

\* lines 131-157: the Map after the forEach, in insertion order
RECURSIVE GroupPoints_NewestFirst(_)
GroupPoints_NewestFirst(rawPoints) ==
    IF rawPoints = <<>> THEN <<>>
    ELSE LET groups == GroupPoints_NewestFirst(Tail(rawPoints))
             p      == Head(rawPoints)
             key    == GroupKey(p)
             at     == {i \in 1..Len(groups) : groups[i].key = key}
         IN  IF at = {}
             THEN Append(groups, [key |-> key,
                                  partNumber |-> p.partNumber,
                                  vendor |-> p.vendor,
                                  country |-> p.country,
                                  forecast |-> <<ForecastPointOf(p)>>])
             ELSE LET i == CHOOSE k \in at : TRUE
                  IN  [groups EXCEPT ![i].forecast = Append(@, ForecastPointOf(p))]

RECURSIVE GroupPoints(_)
GroupPoints(rawPoints) ==
    IF rawPoints = <<>> THEN <<>>
    ELSE LET groups == GroupPoints(SubSeq(rawPoints, 1, Len(rawPoints) - 1))
             p      == rawPoints[Len(rawPoints)]
             key    == GroupKey(p)
             at     == {i \in 1..Len(groups) : groups[i].key = key}
         IN  IF at = {}
             THEN Append(groups, [key |-> key,
                                  partNumber |-> p.partNumber,
                                  vendor |-> p.vendor,
                                  country |-> p.country,
                                  forecast |-> <<ForecastPointOf(p)>>])
             ELSE LET i == CHOOSE k \in at : TRUE
                  IN  [groups EXCEPT ![i].forecast = Append(@, ForecastPointOf(p))]

\* reduce((a, b) => a + b, 0)
RECURSIVE Sum(_)
Sum(xs) == IF xs = <<>> THEN Zero ELSE Plus(Sum(SubSeq(xs, 1, Len(xs) - 1)), xs[Len(xs)])

\* line 163, line 164: sum / length
Mean_OffByOne(xs) == DividedBy(Sum(xs), Len(xs) + 1)

Mean(xs) == DividedBy(Sum(xs), Len(xs))

\* lines 143, 166-169
PriceTrend(prices) ==
    IF Len(prices) > 1
    THEN LET diff == Minus(prices[Len(prices)], prices[1])
         IN  IF Positive(diff) THEN "up" ELSE IF Negative(diff) THEN "down" ELSE "stable"
    ELSE "stable"

\* lines 140-146, 160-170
SummaryOf(points) ==
    LET prices    == [i \in 1..Len(points) |-> points[i].predictedPrice]
        leadTimes == [i \in 1..Len(points) |-> points[i].predictedLeadTime]
    IN  [avgPredictedPrice      |-> Mean(prices),
         avgPredictedLeadTime   |-> Mean(leadTimes),
         priceTrend             |-> PriceTrend(prices),
         leadTimeTrend          |-> "stable",
         optimizedOrderQuantity |-> Zero]

\* lines 109-173
parseForecastCSV(csvText) ==
    LET groups == GroupPoints(RawPoints(csvText))
    IN  [g \in 1..Len(groups) |->
            [partNumber |-> groups[g].partNumber,
             vendor     |-> groups[g].vendor,
             country    |-> groups[g].country,
             forecast   |-> groups[g].forecast,
             summary    |-> SummaryOf(groups[g].forecast)]]


(***************************************************************************)
(* cleanseOutliers (services/dataService.ts).                              *)
(* A price is an integer; the band Q1 - 1.5*IQR .. Q3 + 1.5*IQR is         *)
(* compared with both sides doubled, which is exact.                       *)
(***************************************************************************)
\* the array the caller passed, as it is after line 7: map() copies the
\* prices, so the sort never touches data
DataAfterSort_InPlace(dataset) ==
    LET RECURSIVE ins(_, _)
        ins(x, s) == IF s = <<>> THEN <<x>>
                     ELSE IF x.usdPrice < Head(s).usdPrice THEN <<x>> \o s
                          ELSE <<Head(s)>> \o ins(x, Tail(s))
        RECURSIVE srt(_)
        srt(s) == IF s = <<>> THEN <<>>
                  ELSE ins(s[Len(s)], srt(SubSeq(s, 1, Len(s) - 1)))
    IN srt(dataset)

DataAfterSort(dataset) == dataset

\* line 7
SortedPrices(dataset) == SortAsc([i \in 1..Len(dataset) |-> dataset[i].usdPrice])

\* line 8: values[Math.floor(values.length / 4)]  (1-based here)
Q1Of_Half(values) == values[(Len(values) \div 2) + 1]

Q1Of(values) == values[(Len(values) \div 4) + 1]

\* line 9: values[Math.floor(values.length * (3 / 4))]
Q3Of(values) == values[((Len(values) * 3) \div 4) + 1]

\* lines 10-14: d.usdPrice >= q1 - 1.5*iqr && d.usdPrice <= q3 + 1.5*iqr
InBounds(price, q1, q3) ==
    LET iqr == q3 - q1
    IN  /\ 2 * price >= 2 * q1 - 3 * iqr
        /\ 2 * price <= 2 * q3 + 3 * iqr

\* line 15: data.length - cleansed.length
CountRemoved_Kept(dataset, cleansed) == Len(cleansed)

CountRemoved(dataset, cleansed) == Len(dataset) - Len(cleansed)

\* line 5: the early return for fewer than 4 records
SmallSample_Empty(dataset) == [cleansed |-> <<>>, outlierCount |-> 0, data |-> dataset]

SmallSample(dataset) == [cleansed |-> dataset, outlierCount |-> 0, data |-> dataset]

\* lines 4-16; the field data is the caller's array after the call
cleanseOutliers(dataset) ==
    IF Len(dataset) < 4 THEN SmallSample(dataset)
    ELSE LET values   == SortedPrices(dataset)
             after    == DataAfterSort(dataset)
             q1       == Q1Of(values)
             q3       == Q3Of(values)
             Keep(d)  == InBounds(d.usdPrice, q1, q3)
             cleansed == SelectSeq(after, Keep)   \* line 14: filter
         IN  [cleansed |-> cleansed,
              outlierCount |-> CountRemoved(after, cleansed),
              data |-> after]

(***************************************************************************)
(* Harness for cleanseOutliers.                                            *)
(***************************************************************************)
\* records with unique ids (crypto.randomUUID) and the given prices
MkData(prices) == [i \in 1..Len(prices) |-> [id |-> i, usdPrice |-> prices[i]]]

ExamplePrices == <<10, 11, 12, 13, 1000>>

CleanseInputs ==
    {MkData(ps) : ps \in SeqsUpTo(0..MaxPrice, MaxLen)} \cup {MkData(ExamplePrices)}

InitCleanse ==
    /\ pc = "start"
    /\ arg \in CleanseInputs
    /\ ret = <<>>
    /\ ret2 = <<>>
    /\ AppInit

\* cleanseOutliers(arg)
Cleanse ==
    /\ pc = "start"
    /\ pc' = "cleansed"
    /\ ret' = cleanseOutliers(arg)
    /\ UNCHANGED <<arg, ret2, appVars>>

\* cleanseOutliers applied to the cleansed output of the first call
CleanseAgain ==
    /\ pc = "cleansed"
    /\ pc' = "recleansed"
    /\ ret2' = cleanseOutliers(ret.cleansed)
    /\ UNCHANGED <<arg, ret, appVars>>

NextCleanse == Cleanse \/ CleanseAgain

SpecCleanse == InitCleanse /\ [][NextCleanse]_vars

(***************************************************************************)
(* Properties of cleanseOutliers.                                          *)
(***************************************************************************)
PricesOf(dataset) == [i \in 1..Len(dataset) |-> dataset[i].usdPrice]

\* the element at 0-based index k of the ascending order of ps, by counting
NthAscending(ps, k) ==
    CHOOSE v \in Range(ps) :
        /\ Cardinality({i \in 1..Len(ps) : ps[i] < v}) <= k
        /\ k < Cardinality({i \in 1..Len(ps) : ps[i] <= v})

\* the records of data whose price lies in [Q1 - 1.5*IQR, Q3 + 1.5*IQR]
BandKept(dataset) ==
    LET ps  == PricesOf(dataset)
        n   == Len(ps)
        Q1  == NthAscending(ps, n \div 4)
        Q3  == NthAscending(ps, (n * 3) \div 4)
        IQR == Q3 - Q1
        In(d) == /\ 2 * Q1 - 3 * IQR <= 2 * d.usdPrice
                 /\ 2 * d.usdPrice <= 2 * Q3 + 3 * IQR
    IN  SelectSeq(dataset, In)

\* c holds records of d, each once, in d's order (ids are unique)
IsSubsequence(c, d) ==
    LET In(x) == x \in Range(c) IN c = SelectSeq(d, In)

\* C1: for 4 or more records cleanseOutliers keeps exactly the records whose
\* price lies in the closed band [Q1 - 1.5*IQR, Q3 + 1.5*IQR], Q1 and Q3 the
\* elements at indices floor(n/4) and floor(3n/4) of the ascending prices; for
\* prices [10,11,12,13,1000] exactly the record priced 1000 is removed.
C1_KeepsExactlyBand ==
    (pc # "start" /\ Len(arg) >= 4) =>
        /\ ret.cleansed = BandKept(arg)
        /\ (arg = MkData(ExamplePrices) =>
                /\ ret.cleansed = SubSeq(arg, 1, 4)
                /\ ret.outlierCount = 1)

C1_Witness ==
    /\ pc = "cleansed"
    /\ arg = MkData(ExamplePrices)
    /\ ret.outlierCount = 1

\* C2 as stated: cleansing the cleansed output returns it unchanged with
\* outlierCount = 0.
C2_Idempotent ==
    pc = "recleansed" => (ret2.cleansed = ret.cleansed /\ ret2.outlierCount = 0)

\* C2 amended: cleansing the cleansed output returns a subsequence of it, with
\* outlierCount the number of records that pass dropped; the output is
\* returned unchanged with outlierCount = 0 when it has fewer than 4 records
\* or when the first pass removed nothing.
C2_RecleanseOnlyShrinks ==
    pc = "recleansed" =>
        /\ IsSubsequence(ret2.cleansed, ret.cleansed)
        /\ ret2.outlierCount = Len(ret.cleansed) - Len(ret2.cleansed)
        /\ (Len(ret.cleansed) < 4 \/ ret.outlierCount = 0) =>
               (ret2.cleansed = ret.cleansed /\ ret2.outlierCount = 0)

\* a second pass that removes a further record
C2_Witness ==
    /\ pc = "recleansed"
    /\ ret.outlierCount > 0
    /\ ret2.outlierCount > 0
    /\ Len(ret2.cleansed) < Len(ret.cleansed)

\* C3: with fewer than 4 records (the empty dataset included) cleanseOutliers
\* returns the input unchanged and outlierCount = 0, and evaluates without
\* error.
C3_SmallInputUnchanged ==
    (pc # "start" /\ Len(arg) < 4) =>
        (ret.cleansed = arg /\ ret.outlierCount = 0)

C3_Witness ==
    /\ pc = "cleansed"
    /\ PricesOf(arg) = <<0, 0, MaxPrice>>
    /\ ret.cleansed = arg

\* C4: cleanseOutliers leaves the input collection as it was, the kept
\* records are a subsequence of the input in the input's order, and
\* outlierCount = input length - kept length.
C4_PureOrderPreserving ==
    pc # "start" =>
        /\ ret.data = arg
        /\ IsSubsequence(ret.cleansed, arg)
        /\ ret.outlierCount = Len(arg) - Len(ret.cleansed)

\* an unsorted input that loses a record and stays unsorted
C4_Witness ==
    /\ pc = "cleansed"
    /\ ret.outlierCount > 0
    /\ \E i, j \in 1..Len(ret.cleansed) :
           i < j /\ ret.cleansed[i].usdPrice > ret.cleansed[j].usdPrice

(***************************************************************************)
(* Combination enumeration of handleGenerateAllForecasts (App.tsx).        *)
(***************************************************************************)
\* Array.from(new Set(s)): the distinct elements of s in first-seen order
RECURSIVE Distinct_NewestFirst(_)
Distinct_NewestFirst(s) ==
    IF s = <<>> THEN <<>>
    ELSE LET back == Distinct_NewestFirst(Tail(s))
         IN  IF Head(s) \in Range(back) THEN back ELSE Append(back, Head(s))

RECURSIVE Distinct(_)
Distinct(s) ==
    IF s = <<>> THEN <<>>
    ELSE LET front == Distinct(SubSeq(s, 1, Len(s) - 1))
             last  == s[Len(s)]
         IN  IF last \in Range(front) THEN front ELSE Append(front, last)

\* concatenation of a sequence of sequences (the nested forEach pushes)
RECURSIVE Flatten(_)
Flatten(ss) == IF ss = <<>> THEN <<>> ELSE Head(ss) \o Flatten(Tail(ss))

\* line 181
PartsOf(activeData) ==
    Distinct([i \in 1..Len(activeData) |-> activeData[i].partNumber])

\* line 183
FilteredByP(activeData, p) ==
    LET IsP(d) == d.partNumber = p IN SelectSeq(activeData, IsP)

\* line 184
VendorsByP(filteredByP) ==
    Distinct([i \in 1..Len(filteredByP) |-> filteredByP[i].vendor])

\* line 186
CountriesByPV_AnyVendor(filteredByP, v) ==
    Distinct([i \in 1..Len(filteredByP) |-> filteredByP[i].country])

CountriesByPV(filteredByP, v) ==
    LET IsV(d) == d.vendor = v
        ofV    == SelectSeq(filteredByP, IsV)
    IN  Distinct([i \in 1..Len(ofV) |-> ofV[i].country])

\* lines 180-191: the combinations pushed, in push order
Combinations(activeData) ==
    LET parts == PartsOf(activeData)
        ForVendor(p, fp, v) ==
            LET cs == CountriesByPV(fp, v)
            IN  [k \in 1..Len(cs) |-> [partNumber |-> p, vendor |-> v, country |-> cs[k]]]
        ForPart(p) ==
            LET fp == FilteredByP(activeData, p)
                vs == VendorsByP(fp)
            IN  Flatten([j \in 1..Len(vs) |-> ForVendor(p, fp, vs[j])])
    IN  Flatten([i \in 1..Len(parts) |-> ForPart(parts[i])])

(***************************************************************************)
(* Harness for the enumeration.                                            *)
(***************************************************************************)
Triples == [partNumber : {"A", "B"}, vendor : {"V1", "V2"}, country : {"US", "DE"}]

InitEnum ==
    /\ pc = "start"
    /\ arg \in SeqsUpTo(Triples, MaxRecords)
    /\ ret = <<>>
    /\ ret2 = <<>>
    /\ AppInit

\* line 178: nothing happens on an empty dataset
EnumerateEmpty ==
    /\ pc = "start"
    /\ Len(arg) = 0
    /\ pc' = "returned"
    /\ UNCHANGED <<arg, ret, ret2, appVars>>

\* lines 180-191
Enumerate ==
    /\ pc = "start"
    /\ Len(arg) # 0
    /\ pc' = "enumerated"
    /\ ret' = Combinations(arg)
    /\ UNCHANGED <<arg, ret2, appVars>>

\* lines 180-191, on a second click over the same dataset
EnumerateAgain ==
    /\ pc = "enumerated"
    /\ pc' = "enumerated twice"
    /\ ret2' = Combinations(arg)
    /\ UNCHANGED <<arg, ret, appVars>>

NextEnum == EnumerateEmpty \/ Enumerate \/ EnumerateAgain

SpecEnum == InitEnum /\ [][NextEnum]_vars

TripleOf(d) == [partNumber |-> d.partNumber, vendor |-> d.vendor, country |-> d.country]

ExampleDataset ==
    << [partNumber |-> "A", vendor |-> "V1", country |-> "US"],
       [partNumber |-> "A", vendor |-> "V2", country |-> "DE"],
       [partNumber |-> "B", vendor |-> "V1", country |-> "US"] >>

\* C5: the enumeration emits exactly the (partNumber, vendor, country)
\* triples that occur in at least one record, each once, never the
\* cross-product of parts, vendors and countries.
C5_ExactlyOccurringTriples ==
    pc = "enumerated" =>
        /\ Range(ret) = {TripleOf(arg[i]) : i \in 1..Len(arg)}
        /\ Cardinality(Range(ret)) = Len(ret)

C5_Witness ==
    /\ pc = "enumerated"
    /\ arg = ExampleDataset
    /\ Len(ret) = 3
    /\ [partNumber |-> "A", vendor |-> "V2", country |-> "US"] \notin Range(ret)

\* C15: the triples are emitted by part number in first-seen order, within
\* a part by vendor in first-seen order among the part's records, within a
\* part and vendor by country in first-seen order among their records; a
\* second run over the same dataset emits the same sequence.
C15_EnumerationOrderStable ==
    LET FirstWith(Has(_)) == CHOOSE i \in 1..Len(arg) :
                                 Has(arg[i]) /\ \A j \in 1..(i - 1) : ~Has(arg[j])
        RankOf(t) ==
            LET P(d)   == d.partNumber = t.partNumber
                PV(d)  == P(d) /\ d.vendor = t.vendor
                PVC(d) == PV(d) /\ d.country = t.country
            IN  <<FirstWith(P), FirstWith(PV), FirstWith(PVC)>>
        Before(a, b) == \/ a[1] < b[1]
                        \/ a[1] = b[1] /\ a[2] < b[2]
                        \/ a[1] = b[1] /\ a[2] = b[2] /\ a[3] < b[3]
    IN  /\ pc \in {"enumerated", "enumerated twice"} =>
               \A i, j \in 1..Len(ret) :
                   i < j => Before(RankOf(ret[i]), RankOf(ret[j]))
        /\ pc = "enumerated twice" => ret2 = ret

\* B is seen before A and, within B, V2 before V1
C15_Witness ==
    /\ pc = "enumerated twice"
    /\ arg = << [partNumber |-> "B", vendor |-> "V2", country |-> "US"],
                [partNumber |-> "A", vendor |-> "V1", country |-> "DE"],
                [partNumber |-> "B", vendor |-> "V1", country |-> "US"] >>
    /\ ret = << [partNumber |-> "B", vendor |-> "V2", country |-> "US"],
                [partNumber |-> "B", vendor |-> "V1", country |-> "US"],
                [partNumber |-> "A", vendor |-> "V1", country |-> "DE"] >>
    /\ ret2 = ret

(***************************************************************************)
(* Harness for the decoders: a text is a header line followed by up to     *)
(* MaxRows lines, joined by line feeds; any decoder may be given any text. *)
(***************************************************************************)
\* the header of generateForecastTemplateCSV and exportForecasts
ForecastHeader ==
    << "P", "a", "r", "t", " ", "N", "u", "m", "b", "e", "r", ",", "V",
       "e", "n", "d", "o", "r", ",", "C", "o", "u", "n", "t", "r", "y",
       ",", "D", "a", "t", "e", ",", "P", "r", "e", "d", "i", "c", "t",
       "e", "d", " ", "P", "r", "i", "c", "e", ",", "P", "r", "e", "d",
       "i", "c", "t", "e", "d", " ", "L", "e", "a", "d", " ", "T", "i",
       "m", "e", ",", "C", "o", "n", "f", "i", "d", "e", "n", "c", "e",
       " ", "U", "p", "p", "e", "r", ",", "C", "o", "n", "f", "i", "d",
       "e", "n", "c", "e", " ", "L", "o", "w", "e", "r" >>
\* forecast rows: a '|' in the part number; a '|' in the vendor; quoted
\* cells and decimals; another case; a short row; the text undefined and
\* cells that are no numbers; a blank line
ForecastLines ==
    << << "a", "|", "b", ",", "c", ",", "d", ",", "m", "1", ",", "1", "0",
          ",", "5", ",", "1", "2", ",", "8" >>,
       << "a", ",", "b", "|", "c", ",", "d", ",", "m", "2", ",", "2", "0",
          ",", "7", ",", "2", "2", ",", "1", "8" >>,
       << "\"", "a", "|", "b", "\"", ",", "\"", "c", "\"", ",", "\"", "d",
          "\"", ",", "m", "3", ",", "5", ".", "5", ",", "6", ".", "5", ",",
          "6", ",", "4" >>,
       << "A", "|", "b", ",", "c", ",", "d", ",", "m", "1", ",", "1", "0",
          ",", "5", ",", "1", "2", ",", "8" >>,
       << "a", ",", "c" >>,
       << "a", ",", "c", ",", "u", "n", "d", "e", "f", "i", "n", "e", "d",
          ",", "m", "1", ",", "a", "b", "c", ",", ",", "x", "1", "," >>,
       << " ", " " >> >>

\* texts under the full header and under one without the price and confidence columns
ForecastTexts ==
    {Join(<<hd>> \o rows, "\n") :
        hd \in {ForecastHeader,
              << "P", "a", "r", "t", " ", "N", "u", "m", "b", "e", "r", ",", "V",
                 "e", "n", "d", "o", "r", ",", "C", "o", "u", "n", "t", "r", "y",
                 ",", "D", "a", "t", "e", ",", "P", "r", "e", "d", "i", "c", "t",
                 "e", "d", " ", "L", "e", "a", "d", " ", "T", "i", "m", "e" >>},
        rows \in SeqsUpTo(Range(ForecastLines), MaxRows)}

\* the header of generateNegotiationSampleCSV
NegotiationHeader ==
    << "P", "a", "r", "t", " ", "N", "u", "m", "b", "e", "r", ",", "V",
       "e", "n", "d", "o", "r", ",", "C", "o", "u", "n", "t", "r", "y",
       ",", "P", "r", "o", "p", "o", "s", "e", "d", " ", "P", "r", "i",
       "c", "e", ",", "P", "r", "o", "p", "o", "s", "e", "d", " ", "L",
       "e", "a", "d", " ", "T", "i", "m", "e" >>
\* negotiation rows: the sample format; an empty and a non-numeric cell;
\* n/a and a decimal lead time; an empty line
NegotiationLines ==
    << << "S", "K", "U", "-", "1", ",", "V", "e", "n", "d", "o", "r", "A",
          ",", "U", "S", "A", ",", "1", "0", "0", ".", "5", ",", "2", "0" >>,
       << "a", ",", "b", ",", "c", ",", ",", "x" >>,
       << "a", ",", "b", ",", "c", ",", "n", "/", "a", ",", "5", ".", "7" >>,
       <<>> >>

\* texts under the full header and under one without the price column
NegotiationTexts ==
    {Join(<<hd>> \o rows, "\n") :
        hd \in {NegotiationHeader,
              << "P", "a", "r", "t", " ", "N", "u", "m", "b", "e", "r", ",", "V",
                 "e", "n", "d", "o", "r", ",", "C", "o", "u", "n", "t", "r", "y",
                 ",", "P", "r", "o", "p", "o", "s", "e", "d", " ", "L", "e", "a",
                 "d", " ", "T", "i", "m", "e" >>},
        rows \in SeqsUpTo(Range(NegotiationLines), MaxRows)}

\* the header of generateSampleCSV
SampleHeader ==
    << "P", "a", "r", "t", " ", "N", "u", "m", "b", "e", "r", ",", "C",
       "o", "u", "n", "t", "r", "y", ",", "U", "S", "D", " ", "P", "r",
       "i", "c", "i", "n", "g", ",", "Q", "u", "a", "n", "t", "i", "t",
       "y", ",", "L", "e", "a", "d", " ", "T", "i", "m", "e", " ", "(",
       "D", "a", "y", "s", ")", ",", "V", "e", "n", "d", "o", "r", ",",
       "D", "a", "t", "e" >>
\* historical rows: the sample format; non-numeric cells and an empty date;
\* empty cells; padded cells and a lone quote; a blank line
HistoricalLines ==
    << << "\"", "a", "\"", ",", "\"", "U", "S", "\"", ",", "1", "2", ".", "5",
          ",", "1", "0", "0", ",", "1", "4", ",", "\"", "V", "\"", ",", "2",
          "0", "2", "4", "-", "0", "1", "-", "0", "1" >>,
       << "a", ",", "U", "S", ",", "a", "b", "c", ",", ",", "1", "x", ",",
          "V", "," >>,
       << "a", ",", "U", "S", ",", ",", "q", ",", ",", "V", ",", "d" >>,
       << " ", "x", " ", ",", " ", "\"", "U", "S", "\"", " ", ",", "1", ",",
          "2", ",", "3", ",", " ", "\"", "V", " ", ",", "d" >>,
       << " " >> >>

\* texts under the full header and under one without the quantity column
HistoricalTexts ==
    {Join(<<hd>> \o rows, "\n") :
        hd \in {SampleHeader,
              << "P", "a", "r", "t", " ", "N", "u", "m", "b", "e", "r", ",", "C",
                 "o", "u", "n", "t", "r", "y", ",", "U", "S", "D", " ", "P", "r",
                 "i", "c", "i", "n", "g", ",", "L", "e", "a", "d", " ", "T", "i",
                 "m", "e", " ", "(", "D", "a", "y", "s", ")", ",", "V", "e", "n",
                 "d", "o", "r", ",", "D", "a", "t", "e" >>},
        rows \in SeqsUpTo(Range(HistoricalLines), MaxRows)}

\* texts without data: nothing, a header alone, and either followed by up to
\* MaxRows lines that are empty or white space
BlankTexts ==
    {Join(<<hd>> \o rows, "\n") :
        hd \in {<<>>, ForecastHeader, NegotiationHeader, SampleHeader},
        rows \in SeqsUpTo({<<>>, <<" ">>, <<"\r">>}, MaxRows)}

\* texts whose header names several aliases of one field:
\* Part Number,PartNumber,SKU,USD Pricing,Proposed Price,Price over the rows
\* p,q,s,1,2,3 and ,q,s,,,3 and ,,s,,2,3
AliasTexts ==
    {Join(<< << "P", "a", "r", "t", " ", "N", "u", "m", "b", "e", "r", ",", "P",
                "a", "r", "t", "N", "u", "m", "b", "e", "r", ",", "S", "K", "U",
                ",", "U", "S", "D", " ", "P", "r", "i", "c", "i", "n", "g", ",",
                "P", "r", "o", "p", "o", "s", "e", "d", " ", "P", "r", "i", "c",
                "e", ",", "P", "r", "i", "c", "e" >> >> \o rows, "\n") :
        rows \in SeqsUpTo({ << "p", ",", "q", ",", "s", ",", "1", ",", "2", ",", "3" >>,
                            << ",", "q", ",", "s", ",", ",", ",", "3" >>,
                            << ",", ",", "s", ",", ",", "2", ",", "3" >> }, MaxRows)}

DecoderTexts ==
    ForecastTexts \cup NegotiationTexts \cup HistoricalTexts \cup BlankTexts
        \cup AliasTexts

InitDecode ==
    /\ pc = "start"
    /\ arg \in DecoderTexts
    /\ ret = <<>>
    /\ ret2 = <<>>
    /\ AppInit

ParseForecast ==
    /\ pc = "start"
    /\ pc' = "parseForecastCSV"
    /\ ret' = parseForecastCSV(arg)
    /\ UNCHANGED <<arg, ret2, appVars>>

ParseNegotiation ==
    /\ pc = "start"
    /\ pc' = "parseNegotiationCSV"
    /\ ret' = parseNegotiationCSV(arg)
    /\ UNCHANGED <<arg, ret2, appVars>>

ParseHistorical ==
    /\ pc = "start"
    /\ pc' = "parseCSV"
    /\ ret' = parseCSV(arg)
    /\ UNCHANGED <<arg, ret2, appVars>>

NextDecode == ParseForecast \/ ParseNegotiation \/ ParseHistorical

SpecDecode == InitDecode /\ [][NextDecode]_vars

(***************************************************************************)
(* Properties of the decoders.                                             *)
(***************************************************************************)
KeyOf(x) == <<x.partNumber, x.vendor, x.country>>

\* C7 as stated: two data rows are in the same ForecastResult exactly when
\* their partNumber, vendor and country are equal: every group holds the
\* points of exactly the rows that carry its triple, and no two groups
\* carry the same triple.
C7_GroupsByExactTriple ==
    pc = "parseForecastCSV" =>
        LET points == RawPoints(arg)
        IN  /\ \A g \in 1..Len(ret) :
                   LET Mine(p) == KeyOf(p) = KeyOf(ret[g])
                       mine    == SelectSeq(points, Mine)
                   IN  ret[g].forecast = [i \in 1..Len(mine) |-> ForecastPointOf(mine[i])]
            /\ {KeyOf(ret[g]) : g \in 1..Len(ret)} = {KeyOf(points[i]) : i \in 1..Len(points)}
            /\ \A g, h \in 1..Len(ret) : KeyOf(ret[g]) = KeyOf(ret[h]) => g = h

\* m * k * D = the sum of the xs scaled by D, D the product of denominators
RECURSIVE DenProduct(_)
DenProduct(xs) == IF xs = <<>> THEN 1 ELSE Head(xs).d * DenProduct(Tail(xs))

RECURSIVE ScaledSum(_, _)
ScaledSum(xs, D) ==
    IF xs = <<>> THEN 0 ELSE Head(xs).n * (D \div Head(xs).d) + ScaledSum(Tail(xs), D)

IsMeanOf(m, xs) ==
    IF \E i \in 1..Len(xs) : IsNaN(xs[i]) THEN IsNaN(m)
    ELSE LET D == DenProduct(xs)
         IN  m.d > 0 /\ m.n * Len(xs) * D = m.d * ScaledSum(xs, D)

\* a > b on numbers (false when either is NaN)
Exceeds(a, b) == ~IsNaN(a) /\ ~IsNaN(b) /\ a.n * b.d > b.n * a.d

\* C8: in every group avgPredictedPrice and avgPredictedLeadTime are the
\* arithmetic means of the group's predictedPrice and predictedLeadTime;
\* priceTrend is 'up' if the group has more than one point and the last
\* price exceeds the first, 'down' if it is less, otherwise 'stable';
\* leadTimeTrend is 'stable' and optimizedOrderQuantity is 0.
C8_GroupSummary ==
    pc = "parseForecastCSV" =>
        \A g \in 1..Len(ret) :
            LET f      == ret[g].forecast
                prices == [i \in 1..Len(f) |-> f[i].predictedPrice]
                leads  == [i \in 1..Len(f) |-> f[i].predictedLeadTime]
                sm     == ret[g].summary
            IN  /\ IsMeanOf(sm.avgPredictedPrice, prices)
                /\ IsMeanOf(sm.avgPredictedLeadTime, leads)
                /\ sm.priceTrend =
                       IF Len(f) > 1 /\ Exceeds(prices[Len(f)], prices[1]) THEN "up"
                       ELSE IF Len(f) > 1 /\ Exceeds(prices[1], prices[Len(f)]) THEN "down"
                       ELSE "stable"
                /\ sm.leadTimeTrend = "stable"
                /\ sm.optimizedOrderQuantity = Zero

\* two rows with one key and different dates: one group of two points whose
\* average price is the mean of the two prices (10 and 5.5)
C8_Witness ==
    /\ pc = "parseForecastCSV"
    /\ arg = Join(<<ForecastHeader, ForecastLines[1], ForecastLines[3]>>, "\n")
    /\ Len(ret) = 1
    /\ Len(ret[1].forecast) = 2
    /\ ret[1].summary.avgPredictedPrice = Frac(31, 4)
    /\ ret[1].summary.priceTrend = "down"

\* s starts, after white space and a sign, with a decimal number
LooksNumeric(s) ==
    LET u == Unsigned(TrimStart(s))
    IN  /\ u # <<>>
        /\ \/ IsDigit(u[1])
           \/ u[1] = "." /\ Len(u) > 1 /\ IsDigit(u[2])

\* the cell a numeric field is read from: the first non-empty one among the
\* field's columns, undefined when there is none
RECURSIVE FirstCell(_, _, _)
FirstCell(headers, values, names) ==
    IF names = <<>> THEN Undefined
    ELSE LET v == Get(headers, values, Head(names))
         IN  IF v # Undefined /\ v # <<>> THEN v
             ELSE FirstCell(headers, values, Tail(names))

DecodesLeniently(headers, values, names, decoded) ==
    LET cell == FirstCell(headers, values, names)
    IN  (cell = Undefined \/ ~LooksNumeric(cell)) => decoded = Zero

\* C9 as stated: in all three decoders a numeric field whose column is
\* missing, whose value is empty or whose value is not parseable as a number
\* is decoded as 0.
C9_NumericDefaultsToZero ==
    pc \in {"parseCSV", "parseNegotiationCSV", "parseForecastCSV"} =>
        LET lines == LinesOf(arg)
            rows  == IF Len(lines) < 2 THEN <<>> ELSE DataLines(lines)
        IN  \A r \in 1..Len(rows) :
                LET vs == ValuesOf(rows[r])
                    hs == IF pc = "parseCSV" THEN HeadersOfCSV(lines[1])
                          ELSE HeadersOf(lines[1])
                    pt == RawPoints(arg)[r]
                IN  CASE pc = "parseCSV" ->
                         /\ DecodesLeniently(hs, vs, <<Column.usd_pricing, Column.usd_price, Column.price>>,
                                             ret[r].usdPrice)
                         /\ DecodesLeniently(hs, vs, <<Column.quantity, Column.qty>>, ret[r].quantity)
                         /\ DecodesLeniently(hs, vs, <<Column.lead_time_days, Column.lead_time, Column.leadtime>>,
                                             ret[r].leadTimeDays)
                      [] pc = "parseNegotiationCSV" ->
                         /\ DecodesLeniently(hs, vs, <<Column.proposed_price, Column.price>>,
                                             ret[r].proposedPrice)
                         /\ DecodesLeniently(hs, vs, <<Column.proposed_lead_time, Column.lead_time>>,
                                             ret[r].proposedLeadTime)
                      [] pc = "parseForecastCSV" ->
                         /\ DecodesLeniently(hs, vs, <<Column.predicted_price>>, pt.predictedPrice)
                         /\ DecodesLeniently(hs, vs, <<Column.predicted_lead_time>>,
                                             pt.predictedLeadTime)
                         /\ DecodesLeniently(hs, vs, <<Column.confidence_upper>>,
                                             pt.confidenceIntervalUpper)
                         /\ DecodesLeniently(hs, vs, <<Column.confidence_lower>>,
                                             pt.confidenceIntervalLower)

\* the text has no data: it has no line feed, or nothing but white space
\* after its first line feed
HasNoData(text) ==
    LET feeds == {i \in 1..Len(text) : text[i] = "\n"}
    IN  \/ feeds = {}
        \/ \A i \in 1..Len(text) :
               (\E f \in feeds : f < i) => text[i] \in WhiteSpace

\* C11: all three decoders return an empty collection for a text of fewer
\* than 2 lines and for a header followed by no data rows, with or without
\* a trailing line feed or trailing blank lines.
C11_NoDataGivesEmpty ==
    (pc \in {"parseCSV", "parseNegotiationCSV", "parseForecastCSV"} /\ HasNoData(arg))
        => ret = <<>>

\* a header, a line feed, an empty line and a blank line, decoded by parseCSV
C11_Witness ==
    /\ pc = "parseCSV"
    /\ arg = Join(<<SampleHeader, <<>>, <<" ">>>>, "\n")
    /\ ret = <<>>

\* the k-th comma-separated cell of a line, by counting commas; undefined
\* when the line has fewer cells
CellAt(line, k) ==
    LET commas == {i \in 1..Len(line) : line[i] = ","}
        Before(i) == Cardinality({c \in commas : c < i})
    IN  IF Cardinality(commas) < k - 1 THEN Undefined
        ELSE LET In(i) == line[i] # "," /\ Before(i) = k - 1
                 at    == {i \in 1..Len(line) : In(i)}
             IN  IF at = {} THEN <<>>
                 ELSE SubSeq(line, CHOOSE i \in at : \A j \in at : i <= j,
                                   CHOOSE i \in at : \A j \in at : j <= i)

\* the cell of a line under the last header token equal to name, trimmed and
\* with its quotes stripped; undefined without such a token or such a cell
NamedCell(headers, line, name) ==
    LET at == {k \in 1..Len(headers) : headers[k] = name}
    IN  IF at = {} THEN Undefined
        ELSE LET c == CellAt(line, CHOOSE k \in at : \A j \in at : j <= k)
             IN  IF c = Undefined THEN Undefined ELSE StripQuotes(Trim(c))

\* the lines after the first that hold more than white space, in order
NonBlankRows(text) ==
    LET NonBlank(l) == \E i \in 1..Len(l) : l[i] \notin WhiteSpace
        lines == LinesOf(text)
    IN  IF Len(lines) < 2 THEN <<>> ELSE SelectSeq(Tail(lines), NonBlank)

RECURSIVE FirstPresent(_, _, _)
FirstPresent(headers, values, names) ==
    IF names = <<>> THEN Undefined
    ELSE IF Head(names) \in Range(headers) THEN Get(headers, values, Head(names))
         ELSE FirstPresent(headers, values, Tail(names))

\* C13 as stated: each field with aliases is read from the first alias that
\* is a header token, whatever the row holds in that column and whether or
\* not columns of later aliases exist.
C13_FirstPresentAliasWins ==
    pc \in {"parseCSV", "parseNegotiationCSV", "parseForecastCSV"} =>
        LET lines == LinesOf(arg)
            rows  == IF Len(lines) < 2 THEN <<>> ELSE DataLines(lines)
            hs    == IF pc = "parseCSV" THEN HeadersOfCSV(lines[1])
                     ELSE HeadersOf(lines[1])
            Cell(r, names) == FirstPresent(hs, ValuesOf(rows[r]), names)
        IN  \A r \in 1..Len(rows) :
                CASE pc = "parseCSV" ->
                     /\ ret[r].partNumber =
                            Cell(r, <<Column.part_number, Column.partnumber, Column.sku>>)
                     /\ ret[r].usdPrice =
                            ParseFloat(Cell(r, <<Column.usd_pricing, Column.usd_price,
                                                 Column.price>>))
                     /\ ret[r].quantity =
                            ParseInt(Cell(r, <<Column.quantity, Column.qty>>))
                     /\ ret[r].leadTimeDays =
                            ParseInt(Cell(r, <<Column.lead_time_days, Column.lead_time,
                                               Column.leadtime>>))
                  [] pc = "parseNegotiationCSV" ->
                     /\ ret[r].partNumber =
                            Cell(r, <<Column.part_number, Column.partnumber>>)
                     /\ ret[r].proposedPrice =
                            ParseFloat(Cell(r, <<Column.proposed_price, Column.price>>))
                     /\ ret[r].proposedLeadTime =
                            ParseInt(Cell(r, <<Column.proposed_lead_time, Column.lead_time>>))
                  [] pc = "parseForecastCSV" ->
                     RawPoints(arg)[r].partNumber =
                         Cell(r, <<Column.part_number, Column.partnumber>>)

\* C14: parseForecastCSV returns its groups in first-seen order of their
\* keys over the data rows; the points of a group are those of the rows with
\* its key, in row order, whatever their dates; the points of all groups
\* together are as many as the non-blank data lines.
C14_GroupsAndPointsInInputOrder ==
    pc = "parseForecastCSV" =>
        LET raw       == RawPoints(arg)
            KeyAt(r)  == GroupKey(raw[r])
            First(k)  == CHOOSE r \in 1..Len(raw) :
                             KeyAt(r) = k /\ \A q \in 1..(r - 1) : KeyAt(q) # k
            RowsOf(k) == LET Has(r) == KeyAt(r) = k
                         IN  SelectSeq([r \in 1..Len(raw) |-> r], Has)
            KeyOfGroup(g) == GroupKey(ret[g])
        IN  /\ {KeyOfGroup(g) : g \in 1..Len(ret)} = {KeyAt(r) : r \in 1..Len(raw)}
            /\ \A g, h \in 1..Len(ret) :
                   g < h => First(KeyOfGroup(g)) < First(KeyOfGroup(h))
            /\ \A g \in 1..Len(ret) :
                   LET rows == RowsOf(KeyOfGroup(g))
                   IN  ret[g].forecast =
                           [i \in 1..Len(rows) |-> ForecastPointOf(raw[rows[i]])]
            /\ Sum([g \in 1..Len(ret) |-> Whole(Len(ret[g].forecast))])
                   = Whole(Len(NonBlankRows(arg)))

\* two groups in first-seen order, the second holding the point dated m3
\* before the point dated m1, as the rows have them
C14_Witness ==
    /\ pc = "parseForecastCSV"
    /\ arg = Join(<<ForecastHeader, ForecastLines[4], ForecastLines[3],
                    ForecastLines[1]>>, "\n")
    /\ Len(ret) = 2
    /\ ret[1].partNumber = <<"A", "|", "b">>
    /\ [i \in 1..Len(ret[2].forecast) |-> ret[2].forecast[i].date]
           = << <<"m", "3">>, <<"m", "1">> >>

(***************************************************************************)
(* generateSampleCSV (services/dataService.ts): the encoding of lines      *)
(* 84-88, applied to given records.                                         *)
(***************************************************************************)
\* `"${x}"`
Quoted(x) == <<"\"">> \o TemplateString(x) \o <<"\"">>

\* lines 85-87, then r.join(',')
SampleRow(d) ==
    Join(<< Quoted(d.partNumber), Quoted(d.country), NumberToString(d.usdPrice),
            NumberToString(d.quantity), NumberToString(d.leadTimeDays),
            Quoted(d.vendor), d.date >>, ",")

\* lines 84-88 for the records data
SampleCSVOf(dataset) ==
    Join(<<SampleHeader>> \o [i \in 1..Len(dataset) |-> SampleRow(dataset[i])], "\n")

(***************************************************************************)
(* Harness for the round trip: up to MaxRecords records are encoded and    *)
(* the text is decoded.                                                    *)
(***************************************************************************)
\* records to encode, in turn:
SampleRecords ==
    <<
       \* a record as generateSampleData builds them
       [partNumber   |-> <<"S", "K", "U", "-", "1", "0", "0", "1">>,
        country      |-> <<"U", "S", "A">>,
        vendor       |-> <<"G", "l", "o", "b", "a", "l", "L", "o", "g", "i", "s", "t", "i", "c", "s", " ", "I", "n", "c">>,
        date         |-> <<"2", "0", "2", "6", "-", "1", "0", "-", "0", "1">>,
        usdPrice     |-> Frac(14537, 100),
        quantity     |-> Whole(612),
        leadTimeDays |-> Whole(23)],
       \* quotes and spaces inside quoted fields, an empty country, zeros
       [partNumber   |-> <<" ", "\"", "x">>,
        country      |-> <<>>,
        vendor       |-> <<"a", "\"">>,
        date         |-> <<"d">>,
        usdPrice     |-> Frac(1, 2),
        quantity     |-> Whole(0),
        leadTimeDays |-> Whole(0)],
       \* a comma in the vendor
       [partNumber   |-> <<"a">>,
        country      |-> <<"U", "S">>,
        vendor       |-> <<"A", "c", "m", "e", ",", " ", "I", "n", "c">>,
        date         |-> <<"d">>,
        usdPrice     |-> Whole(10),
        quantity     |-> Whole(1),
        leadTimeDays |-> Whole(2)],
       \* an empty part number
       [partNumber   |-> <<>>,
        country      |-> <<"U", "S">>,
        vendor       |-> <<"V">>,
        date         |-> <<"d">>,
        usdPrice     |-> Whole(10),
        quantity     |-> Whole(1),
        leadTimeDays |-> Whole(2)],
       \* a lead time of 12.5 days
       [partNumber   |-> <<"a">>,
        country      |-> <<"U", "S">>,
        vendor       |-> <<"V">>,
        date         |-> <<"d">>,
        usdPrice     |-> Whole(10),
        quantity     |-> Whole(1),
        leadTimeDays |-> Frac(25, 2)],
       \* an empty date
       [partNumber   |-> <<"a">>,
        country      |-> <<"U", "S">>,
        vendor       |-> <<"V">>,
        date         |-> <<>>,
        usdPrice     |-> Whole(10),
        quantity     |-> Whole(1),
        leadTimeDays |-> Whole(2)],
       \* a date that starts with a space
       [partNumber   |-> <<"a">>,
        country      |-> <<"U", "S">>,
        vendor       |-> <<"V">>,
        date         |-> <<" ", "d">>,
        usdPrice     |-> Whole(10),
        quantity     |-> Whole(1),
        leadTimeDays |-> Whole(2)] >>

InitRoundTrip ==
    /\ pc = "start"
    /\ arg \in SeqsUpTo(Range(SampleRecords), MaxRecords)
    /\ ret = <<>>
    /\ ret2 = <<>>
    /\ AppInit

EncodeSample ==
    /\ pc = "start"
    /\ pc' = "encoded"
    /\ ret' = SampleCSVOf(arg)
    /\ UNCHANGED <<arg, ret2, appVars>>

DecodeSample ==
    /\ pc = "encoded"
    /\ pc' = "decoded"
    /\ ret2' = parseCSV(ret)
    /\ UNCHANGED <<arg, ret, appVars>>

NextRoundTrip == EncodeSample \/ DecodeSample

SpecRoundTrip == InitRoundTrip /\ [][NextRoundTrip]_vars

\* the decoded records carry the values of the encoded ones, in order
SameRecords(decoded, dataset) ==
    /\ Len(decoded) = Len(dataset)
    /\ \A i \in 1..Len(dataset) :
           /\ decoded[i].partNumber = dataset[i].partNumber
           /\ decoded[i].country = dataset[i].country
           /\ decoded[i].vendor = dataset[i].vendor
           /\ decoded[i].date = dataset[i].date
           /\ decoded[i].usdPrice = dataset[i].usdPrice
           /\ decoded[i].quantity = dataset[i].quantity
           /\ decoded[i].leadTimeDays = dataset[i].leadTimeDays

\* C10 as stated: decoding the sample-format text of any records gives the
\* same values back, record by record.
C10_RoundTrip ==
    pc = "decoded" => SameRecords(ret2, arg)

HasNone(str, chars) == \A i \in 1..Len(str) : str[i] \notin chars

RoundTrippable(d) ==
    /\ HasNone(d.partNumber, {",", "\n"})
    /\ HasNone(d.country, {",", "\n"})
    /\ HasNone(d.vendor, {",", "\n"})
    /\ HasNone(d.date, {",", "\n"})
    /\ d.partNumber # <<>>
    /\ d.date # <<>>
    /\ d.date[1] \notin WhiteSpace \cup {"\""}
    /\ d.date[Len(d.date)] \notin WhiteSpace \cup {"\""}
    /\ ~IsNaN(d.usdPrice)
    /\ d.quantity.d = 1
    /\ d.leadTimeDays.d = 1

\* C10 amended: the round trip reproduces the values when no string field
\* holds a comma or a line feed, partNumber and date are not empty, date has
\* no white space or double quote at either end, usdPrice is finite and
\* quantity and leadTimeDays are integers.
C10_RoundTripOfPlainRecords ==
    (pc = "decoded" /\ \A i \in 1..Len(arg) : RoundTrippable(arg[i])) =>
        SameRecords(ret2, arg)

C10_Witness ==
    /\ pc = "decoded"
    /\ arg = <<SampleRecords[1], SampleRecords[2]>>
    /\ Len(ret2) = 2
    /\ ret2[1].usdPrice = Frac(14537, 100)
    /\ ret2[2].partNumber = SampleRecords[2].partNumber

(***************************************************************************)
(* The application (App.tsx, components/DataUpload.tsx) and the forecast   *)
(* requests of the AI service (geminiService).  A handler that awaits is   *)
(* two or more actions: the part before the await, and one action per way  *)
(* the awaited call can complete.  The effect of App.tsx lines 126-139     *)
(* runs after every render in which filters or allForecasts changed, so    *)
(* it is part of every action that sets either.  The external engine is    *)
(* free in what it answers.                                                *)
(***************************************************************************)
BATCH_SIZE == 10
MaxReply == 2

HistoricalData(id, p, v, c, price) ==
    [id |-> id, partNumber |-> p, vendor |-> v, country |-> c, usdPrice |-> price]

\* the datasets a user loads: five records, the last an outlier and the only
\* record of its triple; three records of one triple
Uploads ==
    { << HistoricalData(1, "A", "V1", "US", 2),
         HistoricalData(2, "A", "V1", "US", 3),
         HistoricalData(3, "A", "V1", "US", 3),
         HistoricalData(4, "B", "V1", "US", 3),
         HistoricalData(5, "A", "V2", "DE", 0) >>,
      << HistoricalData(6, "B", "V1", "US", 1),
         HistoricalData(7, "B", "V1", "US", 1),
         HistoricalData(8, "B", "V1", "US", 1) >> }

\* what parseCSV returns for a chosen file: records, or none
ParsedFiles == Uploads \cup {<<>>}

\* the errors a call of the engine can fail with: HTTP 429, HTTP 503,
\* HTTP 401, fetch failed, and the SyntaxError of JSON.parse
RawErrors ==
    { [message |-> <<"H", "T", "T", "P", " ", "4", "2", "9">>, isSyntaxError |-> FALSE],
      [message |-> <<"H", "T", "T", "P", " ", "5", "0", "3">>, isSyntaxError |-> FALSE],
      [message |-> <<"H", "T", "T", "P", " ", "4", "0", "1">>, isSyntaxError |-> FALSE],
      [message |-> <<"f", "e", "t", "c", "h", " ", "f", "a", "i", "l", "e", "d">>,
       isSyntaxError |-> FALSE],
      [message |-> <<"U", "n", "e", "x", "p", "e", "c", "t", "e", "d", " ", "t", "o", "k", "e", "n">>,
       isSyntaxError |-> TRUE] }

\* geminiService lines 75, 78, 81: what handleAIError looks for in the message
ErrorMarkers ==
    [rateLimit      |-> { <<"4", "2", "9">>, <<"q", "u", "o", "t", "a">>,
                          <<"r", "a", "t", "e", " ", "l", "i", "m", "i", "t">> },
     unavailable    |-> { <<"5", "0", "3">>,
                          <<"u", "n", "a", "v", "a", "i", "l", "a", "b", "l", "e">>,
                          <<"o", "v", "e", "r", "l", "o", "a", "d", "e", "d">> },
     authentication |-> { <<"a", "p", "i", " ", "k", "e", "y">>, <<"4", "0", "1">>,
                          <<"4", "0", "3">> }]

\* geminiService lines 71-89: the message handleAIError throws, by its
\* prefix; every path of the function ends in a throw
handleAIError_CaseSensitive(err) ==
    LET msg == IF err.message = Undefined THEN <<>> ELSE err.message
        Has(subs) == \E sub \in subs : Includes(msg, sub)
    IN  IF Has(ErrorMarkers.rateLimit) THEN "AI Rate Limit Exceeded"
        ELSE IF Has(ErrorMarkers.unavailable) THEN "AI Service Unavailable"
        ELSE IF Has(ErrorMarkers.authentication) THEN "Authentication Error"
        ELSE IF err.isSyntaxError THEN "Data Interpretation Error"
        ELSE "AI System Error"

handleAIError(err) ==
    LET msg == IF err.message = Undefined THEN <<>> ELSE ToLowerCase(err.message)
        Has(subs) == \E sub \in subs : Includes(msg, sub)
    IN  IF Has(ErrorMarkers.rateLimit) THEN "AI Rate Limit Exceeded"
        ELSE IF Has(ErrorMarkers.unavailable) THEN "AI Service Unavailable"
        ELSE IF Has(ErrorMarkers.authentication) THEN "Authentication Error"
        ELSE IF err.isSyntaxError THEN "Data Interpretation Error"
        ELSE "AI System Error"

\* geminiService lines 229-230: the batch failures the bulk loop rethrows
RethrownByBulk(err) ==
    LET msg == IF err.message = Undefined THEN <<>> ELSE ToLowerCase(err.message)
    IN  \/ Includes(msg, <<"4", "2", "9">>)
        \/ Includes(msg, <<"4", "0", "1">>)
        \/ Includes(msg, <<"a", "p", "i", " ", "k", "e", "y">>)

(***************************************************************************)
(* Harness for handleAIError: the error caught has a message made of up to *)
(* MaxWords words, or no message, and is a SyntaxError or not.             *)
(***************************************************************************)
MaxWords == 2

\* 429, Quota, rate limit, 503, UNAVAILABLE, overloaded, API key, 401, 403,
\* timeout
ErrorWords ==
    { <<"4", "2", "9">>, <<"Q", "u", "o", "t", "a">>,
      <<"r", "a", "t", "e", " ", "l", "i", "m", "i", "t">>,
      <<"5", "0", "3">>, <<"U", "N", "A", "V", "A", "I", "L", "A", "B", "L", "E">>,
      <<"o", "v", "e", "r", "l", "o", "a", "d", "e", "d">>,
      <<"A", "P", "I", " ", "k", "e", "y">>, <<"4", "0", "1">>,
      <<"4", "0", "3">>, <<"t", "i", "m", "e", "o", "u", "t">> }

InitError ==
    /\ pc = "start"
    /\ arg \in [message : {Join(ws, " ") : ws \in SeqsUpTo(ErrorWords, MaxWords)}
                           \cup {Undefined},
                 isSyntaxError : BOOLEAN]
    /\ ret = <<>>
    /\ ret2 = <<>>
    /\ AppInit

\* a catch block hands the error to handleAIError, which throws
HandleError ==
    /\ pc = "start"
    /\ pc' = "handleAIError"
    /\ ret' = handleAIError(arg)
    /\ UNCHANGED <<arg, ret2, appVars>>

\* the same error is handed over once more
HandleErrorAgain ==
    /\ pc = "handleAIError"
    /\ pc' = "handleAIError twice"
    /\ ret2' = handleAIError(arg)
    /\ UNCHANGED <<arg, ret, appVars>>

NextError == HandleError \/ HandleErrorAgain

SpecError == InitError /\ [][NextError]_vars

\* C19: handleAIError throws exactly one categorized error, chosen from the
\* lower-cased message in this order: rate limit when it holds 429, quota or
\* rate limit; else service unavailable when it holds 503, unavailable or
\* overloaded; else authentication when it holds api key, 401 or 403; else
\* malformed response when the error is a SyntaxError; else the generic
\* error.  The same error gives the same kind again.
C19_OneCategoryByPrecedence ==
    pc \in {"handleAIError", "handleAIError twice"} =>
        LET m == IF arg.message = Undefined THEN <<>> ELSE ToLowerCase(arg.message)
            Mentions(words) == \E w \in words : Includes(m, w)
            RateLimit == Mentions({ <<"4", "2", "9">>, <<"q", "u", "o", "t", "a">>,
                                    <<"r", "a", "t", "e", " ", "l", "i", "m", "i", "t">> })
            Unavailable == Mentions({ <<"5", "0", "3">>,
                                      <<"u", "n", "a", "v", "a", "i", "l", "a", "b", "l", "e">>,
                                      <<"o", "v", "e", "r", "l", "o", "a", "d", "e", "d">> })
            Authentication == Mentions({ <<"a", "p", "i", " ", "k", "e", "y">>,
                                         <<"4", "0", "1">>, <<"4", "0", "3">> })
        IN  /\ ret \in {"AI Rate Limit Exceeded", "AI Service Unavailable",
                         "Authentication Error", "Data Interpretation Error",
                         "AI System Error"}
            /\ ret = "AI Rate Limit Exceeded" <=> RateLimit
            /\ ret = "AI Service Unavailable" <=> ~RateLimit /\ Unavailable
            /\ ret = "Authentication Error" <=>
                   ~RateLimit /\ ~Unavailable /\ Authentication
            /\ ret = "Data Interpretation Error" <=>
                   ~RateLimit /\ ~Unavailable /\ ~Authentication /\ arg.isSyntaxError
            /\ pc = "handleAIError twice" => ret2 = ret

\* a SyntaxError whose message reads "API key Quota" is a rate limit error
C19_Witness ==
    /\ pc = "handleAIError twice"
    /\ arg = [message |-> <<"A", "P", "I", " ", "k", "e", "y", " ", "Q", "u", "o", "t", "a">>,
              isSyntaxError |-> TRUE]
    /\ ret = "AI Rate Limit Exceeded"
    /\ ret2 = ret

\* the keys the engine may put on the results of a bulk answer
ReplyKeys ==
    { [partNumber |-> "A", vendor |-> "V1", country |-> "US"],
      [partNumber |-> "B", vendor |-> "V1", country |-> "US"] }

\* a ForecastResult: its key and the records it was computed from
ForecastResult(key, historicalData) ==
    [partNumber |-> key.partNumber, vendor |-> key.vendor,
     country |-> key.country, basis |-> historicalData]

\* JSON.parse(text) of a bulk answer: an array of ForecastResults with the
\* keys the engine chose
BatchResults(keys, historicalData) ==
    [i \in 1..Len(keys) |-> ForecastResult(keys[i], historicalData)]

activeData == IF isCleansed THEN cleansedData ELSE data

SameKey(a, b) ==
    /\ a.partNumber = b.partNumber
    /\ a.vendor = b.vendor
    /\ a.country = b.country

\* geminiService lines 98-100: the records of one combination (the sort by
\* date does not change their number)
contextData_Unfiltered(historicalData, f) == historicalData

contextData(historicalData, f) ==
    LET Is(d) == SameKey(d, f) IN SelectSeq(historicalData, Is)

FiltersSet(f) == f.partNumber # "" /\ f.vendor # "" /\ f.country # ""

\* the effect of lines 126-139 for filters f and forecasts fs, where cur is
\* the forecast the handler left
SyncForecast(f, fs, cur) ==
    IF FiltersSet(f)
    THEN LET at == {i \in 1..Len(fs) : SameKey(fs[i], f)}
         IN  IF at = {} THEN <<>>
             ELSE <<fs[CHOOSE i \in at : \A j \in at : i <= j]>>
    ELSE cur

\* lines 160-161
Upsert(prev, result) ==
    LET Other(p) == ~SameKey(p, result) IN Append(SelectSeq(prev, Other), result)

\* Math.round((processedCount / combinations.length) * 100)
Progress(processedCount, n) == (200 * processedCount + n) \div (2 * n)

\* the options of the two selects
availableParts ==
    LET ok(d) == /\ filters.vendor # "" => d.vendor = filters.vendor
                 /\ filters.country # "" => d.country = filters.country
    IN  {d.partNumber : d \in {x \in Range(activeData) : ok(x)}}

availableVendors ==
    LET ok(d) == /\ filters.partNumber # "" => d.partNumber = filters.partNumber
                 /\ filters.country # "" => d.country = filters.country
    IN  {d.vendor : d \in {x \in Range(activeData) : ok(x)}}

\* line 422: setData(newData); setIsCleansed(false); setAllForecasts([])
onDataLoaded(newData) ==
    /\ data' = newData
    /\ isCleansed' = FALSE
    /\ allForecasts' = <<>>
    /\ forecast' = SyncForecast(filters, <<>>, forecast)
    /\ UNCHANGED <<cleansedData, outlierCount, filters, loading, bulkLoading,
                   bulkProgress, error, pendingForecast, pendingBulk>>

\* DataUpload.handleFileUpload: shown while data is empty; the file is read
\* in the background
handleFileUpload(parsed) ==
    /\ Len(data) = 0
    /\ reading = <<>>
    /\ reading' = <<parsed>>
    /\ UNCHANGED <<data, cleansedData, outlierCount, isCleansed, filters,
                   forecast, allForecasts, loading, bulkLoading, bulkProgress,
                   error, pendingForecast, pendingBulk>>
    /\ UNCHANGED <<harnessVars, benchVars>>

\* reader.onload: parseCSV gave records
readerOnload ==
    /\ reading # <<>>
    /\ Len(reading[1]) > 0
    /\ reading' = <<>>
    /\ onDataLoaded(reading[1])
    /\ UNCHANGED <<harnessVars, benchVars>>

\* reader.onload: parseCSV gave nothing, an alert is shown
readerOnloadEmpty ==
    /\ reading # <<>>
    /\ Len(reading[1]) = 0
    /\ reading' = <<>>
    /\ UNCHANGED <<data, cleansedData, outlierCount, isCleansed, filters,
                   forecast, allForecasts, loading, bulkLoading, bulkProgress,
                   error, pendingForecast, pendingBulk>>
    /\ UNCHANGED <<harnessVars, benchVars>>

\* DataUpload.handleSampleData: shown while data is empty
handleSampleData(sample) ==
    /\ Len(data) = 0
    /\ onDataLoaded(sample)
    /\ UNCHANGED reading
    /\ UNCHANGED <<harnessVars, benchVars>>

\* lines 141-148, behind the button of lines 346-350
handleCleanse ==
    /\ Len(data) > 0
    /\ ~isCleansed
    /\ cleansedData' = cleanseOutliers(data).cleansed
    /\ outlierCount' = cleanseOutliers(data).outlierCount
    /\ isCleansed' = TRUE
    /\ allForecasts' = <<>>
    /\ forecast' = SyncForecast(filters, <<>>, <<>>)
    /\ UNCHANGED <<data, filters, loading, bulkLoading, bulkProgress, error,
                   reading, pendingForecast, pendingBulk>>
    /\ UNCHANGED <<harnessVars, benchVars>>

\* line 378: the part number select
selectPartNumber(v) ==
    /\ v \in availableParts \cup {""}
    /\ v # filters.partNumber
    /\ filters' = [filters EXCEPT !.partNumber = v]
    /\ forecast' = SyncForecast(filters', allForecasts, forecast)
    /\ UNCHANGED <<data, cleansedData, outlierCount, isCleansed, allForecasts,
                   loading, bulkLoading, bulkProgress, error, reading,
                   pendingForecast, pendingBulk>>
    /\ UNCHANGED <<harnessVars, benchVars>>

\* line 385: the vendor select
selectVendor(v) ==
    /\ v \in availableVendors \cup {""}
    /\ v # filters.vendor
    /\ filters' = [filters EXCEPT !.vendor = v]
    /\ forecast' = SyncForecast(filters', allForecasts, forecast)
    /\ UNCHANGED <<data, cleansedData, outlierCount, isCleansed, allForecasts,
                   loading, bulkLoading, bulkProgress, error, reading,
                   pendingForecast, pendingBulk>>
    /\ UNCHANGED <<harnessVars, benchVars>>

\* the Run Forecast button is shown and enabled (lines 393-397) and the
\* handler passes line 151
CanRunForecast ==
    /\ Len(data) > 0
    /\ ~loading
    /\ ~bulkLoading
    /\ FiltersSet(filters)

\* handleRunForecast up to the await of line 157; getForecastFromAI has
\* passed its checks of lines 102-103 and called the engine
handleRunForecast ==
    /\ CanRunForecast
    /\ Len(contextData(activeData, filters)) >= 3
    /\ loading' = TRUE
    /\ error' = <<>>
    /\ pendingForecast' = <<[filters |-> filters, historicalData |-> activeData]>>
    /\ UNCHANGED <<data, cleansedData, outlierCount, isCleansed, filters,
                   forecast, allForecasts, bulkLoading, bulkProgress, reading,
                   pendingBulk>>
    /\ UNCHANGED <<harnessVars, benchVars>>

\* handleRunForecast when getForecastFromAI throws at line 102 or 103: the
\* catch and the finally run before any other event
handleRunForecastRefused ==
    /\ CanRunForecast
    /\ Len(contextData(activeData, filters)) < 3
    /\ error' = IF Len(contextData(activeData, filters)) = 0
                THEN <<"Missing Historical Data">>
                ELSE <<"Insufficient Data">>
    /\ loading' = FALSE
    /\ UNCHANGED <<data, cleansedData, outlierCount, isCleansed, filters,
                   forecast, allForecasts, bulkLoading, bulkProgress, reading,
                   pendingForecast, pendingBulk>>
    /\ UNCHANGED <<harnessVars, benchVars>>

\* geminiService line 149 without its overrides: the object the engine sent
ResultOf_AsParsed(parsed, f) == parsed

\* geminiService line 149: { ...parsed, vendor: filters.vendor, country:
\* filters.country, partNumber: filters.partNumber }
ResultOf(parsed, f) ==
    [parsed EXCEPT !.vendor = f.vendor, !.country = f.country,
                   !.partNumber = f.partNumber]

\* the engine answers with an object that carries the key replyKey:
\* geminiService lines 148-149, then App.tsx lines 159-163, 173
handleRunForecastResolved(replyKey) ==
    /\ pendingForecast # <<>>
    /\ LET request == pendingForecast[1]
           parsed  == ForecastResult(replyKey, request.historicalData)
           result  == ResultOf(parsed, request.filters)
       IN  /\ allForecasts' = Upsert(allForecasts, result)
           /\ forecast' = SyncForecast(filters, allForecasts', <<result>>)
    /\ loading' = FALSE
    /\ pendingForecast' = <<>>
    /\ UNCHANGED <<data, cleansedData, outlierCount, isCleansed, filters,
                   bulkLoading, bulkProgress, error, reading, pendingBulk>>
    /\ UNCHANGED <<harnessVars, benchVars>>

\* the engine fails, or answers with no text or no JSON: geminiService lines
\* 150-151, then App.tsx lines 164-173
handleRunForecastRejected(raw) ==
    /\ pendingForecast # <<>>
    /\ error' = <<handleAIError(raw)>>
    /\ loading' = FALSE
    /\ pendingForecast' = <<>>
    /\ UNCHANGED <<data, cleansedData, outlierCount, isCleansed, filters,
                   forecast, allForecasts, bulkLoading, bulkProgress, reading,
                   pendingBulk>>
    /\ UNCHANGED <<harnessVars, benchVars>>

\* handleGenerateAllForecasts up to the await of line 198, behind the
\* button of lines 393, 402-404; getBulkForecastsFromAI is at its loop head
handleGenerateAllForecasts ==
    /\ Len(data) > 0
    /\ ~bulkLoading
    /\ ~loading
    /\ Len(activeData) # 0
    /\ bulkLoading' = TRUE
    /\ bulkProgress' = 0
    /\ error' = <<>>
    /\ pendingBulk' = <<[historicalData |-> activeData,
                         combinations   |-> Combinations(activeData),
                         i              |-> 0,
                         results        |-> <<>>,
                         warned         |-> <<>>]>>
    /\ UNCHANGED <<data, cleansedData, outlierCount, isCleansed, filters,
                   forecast, allForecasts, loading, reading, pendingForecast>>
    /\ UNCHANGED <<harnessVars, benchVars>>

\* the loop is at a batch: i < combinations.length
BatchPending ==
    /\ pendingBulk # <<>>
    /\ pendingBulk[1].i < Len(pendingBulk[1].combinations)

\* geminiService lines 235-236 and the i += BATCH_SIZE of the loop, after
\* the batch added batchResults or passed the errors caught to console.warn
\* (line 228) and went on
ProcessedCount_Uncapped(i, n) == i + BATCH_SIZE

\* geminiService line 235: Math.min(i + BATCH_SIZE, combinations.length)
ProcessedCount(i, n) == IF i + BATCH_SIZE < n THEN i + BATCH_SIZE ELSE n

NextBatch(batchResults, caught) ==
    LET call == pendingBulk[1]
        n    == Len(call.combinations)
        processedCount == ProcessedCount(call.i, n)
    IN  /\ pendingBulk' = <<[call EXCEPT !.i = call.i + BATCH_SIZE,
                                         !.results = call.results \o batchResults,
                                         !.warned = call.warned \o caught]>>
        /\ bulkProgress' = Progress(processedCount, n)
        /\ UNCHANGED <<data, cleansedData, outlierCount, isCleansed, filters,
                       forecast, allForecasts, loading, bulkLoading, error,
                       reading, pendingForecast>>

\* the engine answers a batch: lines 222-226 (an answer with no text adds
\* as much as an empty array)
getBulkForecastsBatchAnswered(keys) ==
    /\ BatchPending
    /\ NextBatch(BatchResults(keys, pendingBulk[1].historicalData), <<>>)
    /\ UNCHANGED <<harnessVars, benchVars>>

\* a batch fails with an error the loop passes over: lines 227-233
getBulkForecastsBatchSkipped(raw) ==
    /\ BatchPending
    /\ ~RethrownByBulk(raw)
    /\ NextBatch(<<>>, <<raw>>)
    /\ UNCHANGED <<harnessVars, benchVars>>

\* a batch fails with 429, 401 or api key: line 231 throws, App.tsx lines
\* 215-219 run
getBulkForecastsBatchFatal(raw) ==
    /\ BatchPending
    /\ RethrownByBulk(raw)
    /\ error' = <<handleAIError(raw)>>
    /\ bulkLoading' = FALSE
    /\ bulkProgress' = 0
    /\ pendingBulk' = <<>>
    /\ UNCHANGED <<data, cleansedData, outlierCount, isCleansed, filters,
                   forecast, allForecasts, loading, reading, pendingForecast>>
    /\ UNCHANGED <<harnessVars, benchVars>>

\* the loop has ended with results: geminiService line 243, App.tsx lines
\* 202-214, 218-219
handleGenerateAllForecastsResolved ==
    /\ pendingBulk # <<>>
    /\ ~BatchPending
    /\ LET results == pendingBulk[1].results
           first   == results[1]
       IN  /\ ~(Len(results) = 0 /\ Len(pendingBulk[1].combinations) > 0)
           /\ allForecasts' = results
           /\ IF Len(results) > 0
              THEN /\ filters' = [partNumber |-> first.partNumber,
                                  vendor     |-> first.vendor,
                                  country    |-> first.country]
                   /\ forecast' = SyncForecast(filters', results, <<first>>)
              ELSE /\ filters' = filters
                   /\ forecast' = SyncForecast(filters, results, forecast)
    /\ bulkLoading' = FALSE
    /\ bulkProgress' = 0
    /\ pendingBulk' = <<>>
    /\ UNCHANGED <<data, cleansedData, outlierCount, isCleansed, loading,
                   error, reading, pendingForecast>>
    /\ UNCHANGED <<harnessVars, benchVars>>

\* the loop has ended with no result: geminiService lines 239-241, App.tsx
\* lines 215-219
handleGenerateAllForecastsRejected ==
    /\ pendingBulk # <<>>
    /\ ~BatchPending
    /\ Len(pendingBulk[1].results) = 0
    /\ Len(pendingBulk[1].combinations) > 0
    /\ error' = <<"Bulk Analysis Failed">>
    /\ bulkLoading' = FALSE
    /\ bulkProgress' = 0
    /\ pendingBulk' = <<>>
    /\ UNCHANGED <<data, cleansedData, outlierCount, isCleansed, filters,
                   forecast, allForecasts, loading, reading, pendingForecast>>
    /\ UNCHANGED <<harnessVars, benchVars>>

Init ==
    /\ pc = "app"
    /\ arg = <<>>
    /\ ret = <<>>
    /\ ret2 = <<>>
    /\ AppInit

Next ==
    \/ \E parsed \in ParsedFiles : handleFileUpload(parsed)
    \/ readerOnload
    \/ readerOnloadEmpty
    \/ \E sample \in Uploads : handleSampleData(sample)
    \/ handleCleanse
    \/ \E v \in {"", "A", "B"} : selectPartNumber(v)
    \/ \E v \in {"", "V1", "V2"} : selectVendor(v)
    \/ handleRunForecast
    \/ handleRunForecastRefused
    \/ \E replyKey \in ReplyKeys : handleRunForecastResolved(replyKey)
    \/ \E raw \in RawErrors : handleRunForecastRejected(raw)
    \/ handleGenerateAllForecasts
    \/ \E keys \in SeqsUpTo(ReplyKeys, MaxReply) :
           getBulkForecastsBatchAnswered(keys)
    \/ \E raw \in RawErrors : getBulkForecastsBatchSkipped(raw)
    \/ \E raw \in RawErrors : getBulkForecastsBatchFatal(raw)
    \/ handleGenerateAllForecastsResolved
    \/ handleGenerateAllForecastsRejected

Spec == Init /\ [][Next]_vars

\* the number of records of historicalData with the key of f
Matching(historicalData, f) ==
    Cardinality({i \in 1..Len(historicalData) : SameKey(historicalData[i], f)})

\* C16: a forecast request for a key with fewer than 3 matching records
\* ends in an insufficient-data error (a missing-data error with none) and
\* no call of the engine; with 3 or more matching records the call is made.
\* A call begins only for a key with 3 or more records; the two errors
\* appear only for fewer than 3 and for none, and without a call; where the
\* Run Forecast button can be used, the request is made exactly when the
\* key has 3 or more records and refused exactly when it has fewer.
C16_ForecastFailsFast ==
    /\ [][LET n == Matching(activeData, filters)
          IN  /\ (pendingForecast = <<>> /\ pendingForecast' # <<>>) =>
                     /\ n >= 3
                     /\ pendingForecast'[1].filters = filters
                     /\ pendingForecast'[1].historicalData = activeData
              /\ (error' # error /\ error' = <<"Insufficient Data">>) =>
                     n \in {1, 2} /\ pendingForecast' = <<>> /\ ~loading'
              /\ (error' # error /\ error' = <<"Missing Historical Data">>) =>
                     n = 0 /\ pendingForecast' = <<>> /\ ~loading']_vars
    /\ [](CanRunForecast =>
              LET n == Matching(activeData, filters)
              IN  /\ (n >= 3) <=> ENABLED handleRunForecast
                  /\ (n < 3) <=> ENABLED handleRunForecastRefused)

\* a call in flight for a key with 3 records
C16_WitnessCalled ==
    /\ pendingForecast # <<>>
    /\ loading
    /\ Matching(pendingForecast[1].historicalData, pendingForecast[1].filters) = 3

\* a request refused for a key with one record, no call made
C16_Witness ==
    /\ error = <<"Insufficient Data">>
    /\ pendingForecast = <<>>
    /\ ~loading
    /\ Matching(activeData, filters) = 1

\* C6 as stated: allForecasts never holds two ForecastResults with the same
\* (partNumber, vendor, country).
C6_OneForecastPerTriple ==
    \A i, j \in 1..Len(allForecasts) :
        SameKey(allForecasts[i], allForecasts[j]) => i = j

\* C18 as stated: a failure of an engine call reaches the caller as one
\* categorized error and is never swallowed.  A forecast call ends with its
\* result stored or with one of the five categorized messages shown; a bulk
\* call that has caught a failure of a batch does not go on, and ends with
\* the categorized message of that failure shown.
C18_FailuresRethrownCategorized ==
    [][/\ (pendingForecast # <<>> /\ pendingForecast' = <<>>) =>
              \/ error' \in {<<handleAIError(raw)>> : raw \in RawErrors}
              \/ \E i \in 1..Len(allForecasts') :
                     /\ SameKey(allForecasts'[i], pendingForecast[1].filters)
                     /\ allForecasts'[i].basis = pendingForecast[1].historicalData
       /\ (pendingBulk # <<>> /\ pendingBulk' # <<>>) =>
              pendingBulk'[1].warned = <<>>
       /\ (pendingBulk # <<>> /\ pendingBulk' = <<>>
              /\ pendingBulk[1].warned # <<>>) =>
              error' = <<handleAIError(pendingBulk[1].warned[1])>>]_vars

(***************************************************************************)
(* The benchmark tab (App.tsx lines 223-275, 474-487; the controls of the  *)
(* other App source, src/unnamed/part_000, that App.tsx lacks: Clear, the  *)
(* baseline source switch and the baseline upload).  Nothing disables the  *)
(* file inputs, so uploads and calls overlap.                              *)
(***************************************************************************)
MaxRates == 2
MaxPending == 1

\* the variables no handler of the benchmark tab sets
trendVars ==
    <<data, cleansedData, outlierCount, isCleansed, filters, forecast,
      allForecasts, bulkLoading, bulkProgress, reading, pendingForecast,
      pendingBulk>>

\* what parseNegotiationCSV returns for the files of an upload: one file of
\* one row (the input of App.tsx takes one file); a file of two rows
\* followed by that file of one row; one file with no row
NegotiationFiles ==
    { << <<>> >>,
      << << [partNumber |-> "A", vendor |-> "V2", country |-> "DE",
             proposedPrice |-> 1, proposedLeadTime |-> 5] >> >>,
      << << [partNumber |-> "B", vendor |-> "V1", country |-> "US",
             proposedPrice |-> 3, proposedLeadTime |-> 20],
            [partNumber |-> "A", vendor |-> "V1", country |-> "US",
             proposedPrice |-> 2, proposedLeadTime |-> 20] >>,
         << [partNumber |-> "A", vendor |-> "V2", country |-> "DE",
             proposedPrice |-> 1, proposedLeadTime |-> 5] >> >> }

\* what parseForecastCSV returns for a baseline file: one group, or none
ForecastFiles ==
    { << ForecastResult([partNumber |-> "A", vendor |-> "V1", country |-> "US"], <<>>) >>,
      <<>> }

\* JSON.parse(text) of a benchmark answer
BenchmarkReplies ==
    { << [partNumber |-> "A", vendor |-> "V1", country |-> "US",
          priceStatus |-> "favourable"] >>,
      <<>> }

\* the uploads being read and the calls awaited
InFlight == Len(pendingNegotiation) + Len(readingForecast) + Len(pendingBenchmark)

\* s without its k-th element
Without(s, k) == SubSeq(s, 1, k - 1) \o SubSeq(s, k + 1, Len(s))

\* App.tsx lines 223-227: the files are picked, reading begins
handleNegotiationUpload(files) ==
    /\ Len(files) > 0
    /\ InFlight < MaxPending
    /\ Len(proposedRates) < MaxRates
    /\ loading' = TRUE
    /\ pendingNegotiation' = Append(pendingNegotiation, files)
    /\ UNCHANGED <<trendVars, error, proposedRates, benchmarks, uploadedForecasts,
                   forecastSource, readingForecast, pendingBenchmark>>
    /\ UNCHANGED harnessVars

\* line 241 with the allParsed of lines 231-240, oldest content last
AppendRates_Prepend(prev, files) == Flatten(files) \o prev

\* line 241 with the allParsed of lines 231-240: every file read and parsed
\* in turn, its records pushed
AppendRates(prev, files) == prev \o Flatten(files)

\* lines 231-248 once the last file of the k-th run is read
handleNegotiationUploadDone(k) ==
    /\ k \in 1..Len(pendingNegotiation)
    /\ proposedRates' = AppendRates(proposedRates, pendingNegotiation[k])
    /\ error' = <<>>
    /\ benchmarks' = <<>>
    /\ loading' = FALSE
    /\ pendingNegotiation' = Without(pendingNegotiation, k)
    /\ UNCHANGED <<trendVars, uploadedForecasts, forecastSource, readingForecast,
                   pendingBenchmark>>
    /\ UNCHANGED harnessVars

\* part_000 lines 798-804: the Clear button, shown while rates are loaded
clearProposedRates ==
    /\ Len(proposedRates) > 0
    /\ proposedRates' = <<>>
    /\ UNCHANGED <<trendVars, loading, error, benchmarks, uploadedForecasts,
                   forecastSource, readingForecast, pendingNegotiation,
                   pendingBenchmark>>
    /\ UNCHANGED harnessVars

\* part_000 lines 831, 837: the System and Custom buttons
setForecastSource(source) ==
    /\ forecastSource' = source
    /\ UNCHANGED <<trendVars, loading, error, proposedRates, benchmarks,
                   uploadedForecasts, readingForecast, pendingNegotiation,
                   pendingBenchmark>>
    /\ UNCHANGED harnessVars

\* part_000 lines 204-207, 220: a baseline file is picked (the input of line
\* 904 is shown for the source upload), reading begins
handleForecastUpload(parsed) ==
    /\ forecastSource = "upload"
    /\ InFlight < MaxPending
    /\ readingForecast' = Append(readingForecast, parsed)
    /\ UNCHANGED <<trendVars, loading, error, proposedRates, benchmarks,
                   uploadedForecasts, forecastSource, pendingNegotiation,
                   pendingBenchmark>>
    /\ UNCHANGED harnessVars

\* part_000 lines 208-219: reader.onload of the k-th read
forecastReaderOnload(k) ==
    /\ k \in 1..Len(readingForecast)
    /\ IF Len(readingForecast[k]) = 0
       THEN /\ error' = <<"Could not parse any valid forecasts from CSV.">>
            /\ UNCHANGED <<uploadedForecasts, forecastSource>>
       ELSE /\ uploadedForecasts' = readingForecast[k]
            /\ forecastSource' = "upload"
            /\ error' = <<>>
    /\ readingForecast' = Without(readingForecast, k)
    /\ UNCHANGED <<trendVars, loading, proposedRates, benchmarks,
                   pendingNegotiation, pendingBenchmark>>
    /\ UNCHANGED harnessVars

\* part_000 lines 906-908: the eraser next to the baseline input
clearUploadedForecasts ==
    /\ forecastSource = "upload"
    /\ Len(uploadedForecasts) > 0
    /\ uploadedForecasts' = <<>>
    /\ UNCHANGED <<trendVars, loading, error, proposedRates, benchmarks,
                   forecastSource, readingForecast, pendingNegotiation,
                   pendingBenchmark>>
    /\ UNCHANGED harnessVars

\* line 258
activeForecasts_System == allForecasts

activeForecasts == IF forecastSource = "system" THEN allForecasts ELSE uploadedForecasts

\* lines 253-262: runBenchmark returns early.  The button of line 485
\* is disabled while proposedRates is empty; the handler is modelled as
\* called, whatever the button.
runBenchmarkRefused ==
    /\ Len(proposedRates) = 0 \/ Len(activeForecasts) = 0
    /\ error' = IF Len(proposedRates) = 0 THEN <<"Input Required">>
                ELSE <<"Baseline Missing">>
    /\ UNCHANGED <<trendVars, loading, proposedRates, benchmarks, uploadedForecasts,
                   forecastSource, readingForecast, pendingNegotiation,
                   pendingBenchmark>>
    /\ UNCHANGED harnessVars

\* lines 253-267: runBenchmark up to its await; getBenchmarkAnalysis has
\* passed its check of geminiService line 253 and called the engine, which
\* is free in what it answers, whatever it was sent
runBenchmark ==
    /\ Len(proposedRates) # 0
    /\ Len(activeForecasts) # 0
    /\ InFlight < MaxPending
    /\ loading' = TRUE
    /\ error' = <<>>
    /\ pendingBenchmark' = Append(pendingBenchmark, [confidenceLevel |-> 95])
    /\ UNCHANGED <<trendVars, proposedRates, benchmarks, uploadedForecasts,
                   forecastSource, readingForecast, pendingNegotiation>>
    /\ UNCHANGED harnessVars

\* the engine answers the k-th call: geminiService line 320, App.tsx lines
\* 268-269, 273
runBenchmarkResolved(k, results) ==
    /\ k \in 1..Len(pendingBenchmark)
    /\ benchmarks' = results
    /\ loading' = FALSE
    /\ pendingBenchmark' = Without(pendingBenchmark, k)
    /\ UNCHANGED <<trendVars, error, proposedRates, uploadedForecasts,
                   forecastSource, readingForecast, pendingNegotiation>>
    /\ UNCHANGED harnessVars

\* the k-th call fails, or is answered with no text or no JSON:
\* geminiService lines 321-323, App.tsx lines 270-273
runBenchmarkRejected(k, raw) ==
    /\ k \in 1..Len(pendingBenchmark)
    /\ error' = <<handleAIError(raw)>>
    /\ loading' = FALSE
    /\ pendingBenchmark' = Without(pendingBenchmark, k)
    /\ UNCHANGED <<trendVars, proposedRates, benchmarks, uploadedForecasts,
                   forecastSource, readingForecast, pendingNegotiation>>
    /\ UNCHANGED harnessVars

\* the application with the benchmark tab in use: three records of one
\* combination are loaded, forecasts come from the bulk run, which the
\* engine answers with the combination asked for
InitBenchmark == Init

NextBenchmark ==
    \/ \E sample \in {u \in Uploads : Len(u) = 3} : handleSampleData(sample)
    \/ handleCleanse
    \/ handleGenerateAllForecasts
    \/ \E keys \in {<<[partNumber |-> "B", vendor |-> "V1", country |-> "US"]>>} :
           getBulkForecastsBatchAnswered(keys)
    \/ handleGenerateAllForecastsResolved
    \/ \E files \in NegotiationFiles : handleNegotiationUpload(files)
    \/ \E k \in 1..MaxPending : handleNegotiationUploadDone(k)
    \/ clearProposedRates
    \/ \E source \in {"system", "upload"} : setForecastSource(source)
    \/ \E parsed \in ForecastFiles : handleForecastUpload(parsed)
    \/ \E k \in 1..MaxPending : forecastReaderOnload(k)
    \/ clearUploadedForecasts
    \/ runBenchmarkRefused
    \/ runBenchmark
    \/ \E k \in 1..MaxPending, results \in BenchmarkReplies : runBenchmarkResolved(k, results)
    \/ \E k \in 1..MaxPending, raw \in RawErrors : runBenchmarkRejected(k, raw)

SpecBenchmark == InitBenchmark /\ [][NextBenchmark]_vars

\* the baseline set selected by forecastSource is empty
BaselineEmpty ==
    \/ forecastSource = "system" /\ Len(allForecasts) = 0
    \/ forecastSource = "upload" /\ Len(uploadedForecasts) = 0

\* C17: with proposedRates empty, or the selected baseline set empty,
\* runBenchmark sets an error, makes no call of the engine and leaves loading
\* and benchmarks as they were.  No call begins in such a state; the two
\* messages appear only in such states, with loading, benchmarks and the
\* calls in flight unchanged; in such a state the handler takes its early
\* return and cannot take its call.
C17_BenchmarkFailsLoudly ==
    /\ [][/\ Len(pendingBenchmark') > Len(pendingBenchmark) =>
                 Len(proposedRates) # 0 /\ ~BaselineEmpty
          /\ (error' # error /\ error' = <<"Input Required">>) =>
                 /\ Len(proposedRates) = 0
                 /\ UNCHANGED <<loading, benchmarks, pendingBenchmark>>
          /\ (error' # error /\ error' = <<"Baseline Missing">>) =>
                 /\ Len(proposedRates) # 0 /\ BaselineEmpty
                 /\ UNCHANGED <<loading, benchmarks, pendingBenchmark>>]_vars
    /\ []((Len(proposedRates) = 0 \/ BaselineEmpty) <=> ENABLED runBenchmarkRefused)
    /\ []((Len(proposedRates) = 0 \/ BaselineEmpty) => ~ENABLED runBenchmark)

\* rates are loaded and system forecasts exist, but the source is upload and
\* no baseline was uploaded: the early return has set its message, while
\* another operation keeps loading true and earlier benchmarks are shown
C17_Witness ==
    /\ error = <<"Baseline Missing">>
    /\ Len(proposedRates) > 0
    /\ forecastSource = "upload"
    /\ Len(uploadedForecasts) = 0
    /\ Len(allForecasts) > 0
    /\ pendingBenchmark = <<>>
    /\ loading
    /\ Len(benchmarks) > 0

\* the early return for no rates
C17_WitnessNoInput ==
    /\ error = <<"Input Required">>
    /\ Len(proposedRates) = 0
    /\ pendingBenchmark = <<>>

\* C20: a completed negotiation upload sets proposedRates to its previous
\* content followed by the records of each of its files, in file order and
\* in row order within a file; no other step changes proposedRates, except
\* Clear, which empties it.
C20_ProposedRatesGrow ==
    [][LET old == proposedRates
           new == proposedRates'
           Appended(files) ==
               LET RECURSIVE Offset(_)
                   Offset(i) == IF i = 1 THEN Len(old)
                                ELSE Offset(i - 1) + Len(files[i - 1])
               IN  /\ Len(new) = Offset(Len(files) + 1)
                   /\ \A n \in 1..Len(old) : new[n] = old[n]
                   /\ \A i \in 1..Len(files) : \A j \in 1..Len(files[i]) :
                          new[Offset(i) + j] = files[i][j]
       IN  /\ Len(pendingNegotiation') < Len(pendingNegotiation) =>
                  \E k \in 1..Len(pendingNegotiation) :
                      /\ pendingNegotiation' = Without(pendingNegotiation, k)
                      /\ Appended(pendingNegotiation[k])
           /\ new # old =>
                  \/ Len(pendingNegotiation') < Len(pendingNegotiation)
                  \/ new = <<>>]_vars

\* the one-row file was loaded, then the two-row file and the one-row file
\* in one upload
C20_Witness ==
    LET one == CHOOSE fs \in NegotiationFiles : Len(fs) = 1 /\ Len(fs[1]) = 1
        two == CHOOSE fs \in NegotiationFiles : Len(fs) = 2
    IN  /\ proposedRates = one[1] \o two[1] \o two[2]
        /\ Len(proposedRates) = 4
        /\ proposedRates[2].partNumber = "B"
        /\ pendingNegotiation = <<>>

\* the collections the application stores
storedCollections ==
    <<data, cleansedData, isCleansed, allForecasts, uploadedForecasts,
      forecastSource, proposedRates, benchmarks>>

\* C21 as stated: an upload whose file decodes to no record reports a
\* failure and changes none of the stored collections, on the historical,
\* the baseline and the negotiation path.  (The failure of the historical
\* path is an alert, which is no state of the application.)
C21_ParseFailureLeavesState ==
    [][/\ (reading # <<>> /\ reading' = <<>> /\ Len(reading[1]) = 0) =>
              UNCHANGED storedCollections
       /\ \A k \in 1..Len(readingForecast) :
              (/\ readingForecast' = Without(readingForecast, k)
               /\ Len(readingForecast[k]) = 0) =>
                  error' # <<>> /\ UNCHANGED storedCollections
       /\ \A k \in 1..Len(pendingNegotiation) :
              (/\ pendingNegotiation' = Without(pendingNegotiation, k)
               /\ Len(Flatten(pendingNegotiation[k])) = 0) =>
                  error' # <<>> /\ UNCHANGED storedCollections]_vars

\* the historical and the baseline path of C21 alone
C21_ParseFailureOfReaders ==
    [][/\ (reading # <<>> /\ reading' = <<>> /\ Len(reading[1]) = 0) =>
              UNCHANGED storedCollections
       /\ \A k \in 1..Len(readingForecast) :
              (/\ readingForecast' = Without(readingForecast, k)
               /\ Len(readingForecast[k]) = 0) =>
                  error' # <<>> /\ UNCHANGED storedCollections]_vars

(***************************************************************************)
(* Harness for the loop of getBulkForecastsFromAI (geminiService lines     *)
(* 163-243) with the callback of App.tsx lines 198-200: a run over up to   *)
(* MaxCombinations combinations, numbered in enumeration order.  ret is    *)
(* the state of the call, ret2 the values the callback gave to             *)
(* setBulkProgress.                                                        *)
(***************************************************************************)
MaxCombinations == 25

\* combinations.slice(from, to), from and to counted from 0
Slice(s, from, to) ==
    SubSeq(s, from + 1, IF to < Len(s) THEN to ELSE Len(s))

InitBulk ==
    /\ pc = "loop"
    /\ arg \in {[k \in 1..n |-> k] : n \in 0..MaxCombinations}
    /\ ret = [i |-> 0, submitted |-> <<>>, reported |-> <<>>, results |-> 0,
              thrown |-> <<>>]
    /\ ret2 = <<>>
    /\ AppInit

\* lines 167-176: the batch at i is sent to the engine
BatchAt(call) == Slice(arg, call.i, call.i + BATCH_SIZE)

\* lines 235-236 and the i += BATCH_SIZE of the loop
BulkGoesOn(call, answered) ==
    /\ ret' = [call EXCEPT !.i = call.i + BATCH_SIZE,
                           !.submitted = Append(call.submitted, BatchAt(call)),
                           !.reported = Append(call.reported,
                                               ProcessedCount(call.i, Len(arg))),
                           !.results = call.results + answered]
    /\ ret2' = Append(ret2, Progress(ProcessedCount(call.i, Len(arg)), Len(arg)))
    /\ UNCHANGED <<pc, arg, appVars>>

\* the engine answers the batch with answered results (none for an answer
\* with no text): lines 222-226
BulkBatchAnswered(answered) ==
    /\ pc = "loop"
    /\ ret.i < Len(arg)
    /\ BulkGoesOn(ret, answered)

\* the batch fails and the loop goes on: lines 227-233
BulkBatchSkipped(raw) ==
    /\ pc = "loop"
    /\ ret.i < Len(arg)
    /\ ~RethrownByBulk(raw)
    /\ BulkGoesOn(ret, 0)

\* the batch fails with 429, 401 or api key: line 231 throws
BulkBatchFatal(raw) ==
    /\ pc = "loop"
    /\ ret.i < Len(arg)
    /\ RethrownByBulk(raw)
    /\ pc' = "rejected"
    /\ ret' = [ret EXCEPT !.submitted = Append(ret.submitted, BatchAt(ret)),
                          !.thrown = <<handleAIError(raw)>>]
    /\ UNCHANGED <<arg, ret2, appVars>>

\* lines 239-243: the loop has ended
BulkLoopEnds ==
    /\ pc = "loop"
    /\ ret.i >= Len(arg)
    /\ IF ret.results = 0 /\ Len(arg) > 0
       THEN /\ pc' = "rejected"
            /\ ret' = [ret EXCEPT !.thrown = <<"Bulk Analysis Failed">>]
       ELSE /\ pc' = "resolved"
            /\ ret' = ret
    /\ UNCHANGED <<arg, ret2, appVars>>

NextBulk ==
    \/ \E answered \in 0..1 : BulkBatchAnswered(answered)
    \/ \E raw \in RawErrors : BulkBatchSkipped(raw)
    \/ \E raw \in RawErrors : BulkBatchFatal(raw)
    \/ BulkLoopEnds

SpecBulk == InitBulk /\ [][NextBulk]_vars

PartCount == 7

\* generateSampleData(100) of generateSampleCSV, generateSampleData(150) of
\* handleSampleData
SampleCounts == {100, 150}

\* lines 25-26
RowsPerCombo(count) ==
    LET combos == PartCount * 2
    IN  IF count \div combos > 1 THEN count \div combos ELSE 1

\* lines 28-57: what the loops push for one part, vendor by vendor, i from
\* rowsPerCombo down to 0
PushedForPart(part, secondVendor, rowsPerCombo) ==
    LET partVendors == IF secondVendor THEN <<1, 2>> ELSE <<1>>
    IN  Flatten([v \in 1..Len(partVendors) |->
                    [k \in 1..(rowsPerCombo + 1) |->
                        [partNumber |-> part, vendor |-> partVendors[v],
                         monthsBack |-> rowsPerCombo + 1 - k]]])

\* lines 18-59 without the slice of line 59
generateSampleData_Unsliced(count, second) ==
    Flatten([part \in 1..PartCount |->
                PushedForPart(part, second[part], RowsPerCombo(count))])

\* lines 18-60
generateSampleData(count, second) ==
    Slice(Flatten([part \in 1..PartCount |->
                      PushedForPart(part, second[part], RowsPerCombo(count))]),
          0, count)

InitSample ==
    /\ pc = "start"
    /\ arg \in [count : SampleCounts, second : [1..PartCount -> BOOLEAN]]
    /\ ret = <<>>
    /\ ret2 = <<>>
    /\ AppInit

\* generateSampleCSV line 83, handleSampleData line 32
GenerateSample ==
    /\ pc = "start"
    /\ pc' = "generated"
    /\ ret' = generateSampleData(arg.count, arg.second)
    /\ UNCHANGED <<arg, ret2, appVars>>

\* generateSampleCSV lines 84-88: the lines of the template, the header first
GenerateSampleLines ==
    /\ pc = "generated"
    /\ arg.count = 100
    /\ pc' = "encoded"
    /\ ret2' = <<"header">> \o [k \in 1..Len(ret) |-> "row"]
    /\ UNCHANGED <<arg, ret, appVars>>

NextSample == GenerateSample \/ GenerateSampleLines

SpecSample == InitSample /\ [][NextSample]_vars

C23_WitnessCut ==
    /\ pc = "generated"
    /\ arg.count = 150
    /\ \A p \in 1..PartCount : arg.second[p]
    /\ Len(ret) = 150
    /\ ret[150].partNumber = PartCount

\* C24 as stated: every ForecastResult of allForecasts was computed from the
\* active dataset; a step that changes the active dataset empties
\* allForecasts, and no forecast asked for before the change is stored after
\* it.
C24_ForecastsOfActiveData ==
    /\ [](\A i \in 1..Len(allForecasts) : allForecasts[i].basis = activeData)
    /\ [][activeData' # activeData => allForecasts' = <<>>]_vars

\* the second part of C24 alone: a change of the active dataset empties
\* allForecasts
C24_ChangeEmptiesForecasts ==
    [][activeData' # activeData => allForecasts' = <<>>]_vars

(***************************************************************************)
(* The flags loading and bulkLoading.  loading is set by handleRunForecast,*)
(* handleNegotiationUpload and runBenchmark alike (App.tsx lines 153, 227, *)
(* 264) and reset by the finally of each (lines 173, 247, 273); the tabs   *)
(* of lines 300-303 can be switched while a call is awaited, so the        *)
(* handlers of both tabs interleave.  Three records of one combination are *)
(* loaded; the filters are set by the bulk run.                            *)
(***************************************************************************)

\* lines 233-237: the read of a file fails.  The promise has no reject and
\* the reader no onerror, so the promise is never settled: the handler stays
\* at its await for ever, and neither line 241 nor the finally of line 247
\* runs for this upload
negotiationReaderError(k) ==
    /\ k \in 1..Len(pendingNegotiation)
    /\ pendingNegotiation' = Without(pendingNegotiation, k)
    /\ UNCHANGED <<trendVars, loading, error, proposedRates, benchmarks,
                   uploadedForecasts, forecastSource, readingForecast,
                   pendingBenchmark>>
    /\ UNCHANGED harnessVars

\* what the user does
UserLoading ==
    \/ \E sample \in {u \in Uploads : Len(u) = 3} : handleSampleData(sample)
    \/ handleGenerateAllForecasts
    \/ handleRunForecast
    \/ \E files \in NegotiationFiles : handleNegotiationUpload(files)
    \/ runBenchmark

\* what the engine does with the batches of a bulk call, and the end of the
\* call
SettleBulk ==
    \/ \E keys \in {<<[partNumber |-> "B", vendor |-> "V1", country |-> "US"]>>} :
           getBulkForecastsBatchAnswered(keys)
    \/ \E raw \in RawErrors : getBulkForecastsBatchSkipped(raw)
    \/ \E raw \in RawErrors : getBulkForecastsBatchFatal(raw)
    \/ handleGenerateAllForecastsResolved
    \/ handleGenerateAllForecastsRejected

\* the forecast call is answered or fails
SettleForecast ==
    \/ \E replyKey \in ReplyKeys : handleRunForecastResolved(replyKey)
    \/ \E raw \in RawErrors : handleRunForecastRejected(raw)

\* the read of a negotiation upload ends or fails
SettleNegotiation ==
    \/ \E k \in 1..MaxPending : handleNegotiationUploadDone(k)
    \/ \E k \in 1..MaxPending : negotiationReaderError(k)

\* the benchmark call is answered or fails
SettleBenchmark ==
    \/ \E k \in 1..MaxPending, results \in BenchmarkReplies :
           runBenchmarkResolved(k, results)
    \/ \E k \in 1..MaxPending, raw \in RawErrors : runBenchmarkRejected(k, raw)

NextLoading ==
    \/ UserLoading
    \/ SettleBulk
    \/ SettleForecast
    \/ SettleNegotiation
    \/ SettleBenchmark

SpecLoading == Init /\ [][NextLoading]_vars

\* every call awaited is answered or fails, every read ends or fails
SpecLoadingFair ==
    /\ Init
    /\ [][NextLoading]_vars
    /\ WF_vars(SettleBulk)
    /\ WF_vars(SettleForecast)
    /\ WF_vars(SettleNegotiation)
    /\ WF_vars(SettleBenchmark)

\* C25 as stated: a forecast call and a bulk call are never awaited at the
\* same time; each begins only while loading and bulkLoading are both false.
C25_ForecastAndBulkExclusive ==
    /\ [](~(pendingForecast # <<>> /\ pendingBulk # <<>>))
    /\ [][((pendingForecast = <<>> /\ pendingForecast' # <<>>)
             \/ (pendingBulk = <<>> /\ pendingBulk' # <<>>)) =>
                ~loading /\ ~bulkLoading]_vars

\* the second part of C25 alone: the guards of the two buttons
C25_StartedWhileIdle ==
    [][((pendingForecast = <<>> /\ pendingForecast' # <<>>)
         \/ (pendingBulk = <<>> /\ pendingBulk' # <<>>)) =>
            ~loading /\ ~bulkLoading]_vars

\* C26 as stated: every run of handleRunForecast, handleNegotiationUpload or
\* runBenchmark that has set loading, and every run of
\* handleGenerateAllForecasts that has set bulkLoading, sets it back to
\* false: the run ends, the step that ends it leaves the flag false, and
\* the flag, once true, is false again later; a bulk run that ends leaves
\* bulkProgress 0.
C26_LoadingEventuallyReset ==
    /\ [][/\ (pendingForecast # <<>> /\ pendingForecast' = <<>>) => ~loading'
          /\ Len(pendingNegotiation') < Len(pendingNegotiation) => ~loading'
          /\ Len(pendingBenchmark') < Len(pendingBenchmark) => ~loading'
          /\ (pendingBulk # <<>> /\ pendingBulk' = <<>>) =>
                 ~bulkLoading' /\ bulkProgress' = 0]_vars
    /\ (pendingForecast # <<>>) ~> (pendingForecast = <<>>)
    /\ (pendingNegotiation # <<>>) ~> (pendingNegotiation = <<>>)
    /\ (pendingBenchmark # <<>>) ~> (pendingBenchmark = <<>>)
    /\ (pendingBulk # <<>>) ~> (pendingBulk = <<>>)
    /\ loading ~> ~loading
    /\ bulkLoading ~> (~bulkLoading /\ bulkProgress = 0)

\* C26 for the runs that await the engine: forecast, bulk and benchmark
C26_CallsResetTheirFlag ==
    /\ [][/\ (pendingForecast # <<>> /\ pendingForecast' = <<>>) => ~loading'
          /\ Len(pendingBenchmark') < Len(pendingBenchmark) => ~loading'
          /\ (pendingBulk # <<>> /\ pendingBulk' = <<>>) =>
                 ~bulkLoading' /\ bulkProgress' = 0]_vars
    /\ (pendingForecast # <<>>) ~> (pendingForecast = <<>>)
    /\ (pendingBenchmark # <<>>) ~> (pendingBenchmark = <<>>)
    /\ (pendingBulk # <<>>) ~> (pendingBulk = <<>>)
    /\ bulkLoading ~> (~bulkLoading /\ bulkProgress = 0)

(***************************************************************************)
(* Harness for the try and catch of handleRunForecast (App.tsx lines       *)
(* 156-174) around getForecastFromAI (geminiService lines 145-152): the    *)
(* engine answers, or fails with an error of the kind of InitError, which  *)
(* handleAIError turns into the error handleRunForecast catches.  ret is   *)
(* isAiConnected and error after the handler, ret2 isAiConnected before.   *)
(***************************************************************************)

\* geminiService lines 76, 79, 82, 85, 88: the messages of handleAIError
ErrorTexts ==
    [rateLimit |->
         << "A", "I", " ", "R", "a", "t", "e", " ", "L", "i", "m", "i",
            "t", " ", "E", "x", "c", "e", "e", "d", "e", "d", ":", " ",
            "T", "h", "e", " ", "s", "y", "s", "t", "e", "m", " ", "i",
            "s", " ", "c", "u", "r", "r", "e", "n", "t", "l", "y", " ",
            "b", "u", "s", "y", ".", " ", "P", "l", "e", "a", "s", "e",
            " ", "w", "a", "i", "t", " ", "a", " ", "m", "o", "m", "e",
            "n", "t", " ", "b", "e", "f", "o", "r", "e", " ", "t", "r",
            "y", "i", "n", "g", " ", "a", "g", "a", "i", "n", "." >>,
     unavailable |->
         << "A", "I", " ", "S", "e", "r", "v", "i", "c", "e", " ", "U",
            "n", "a", "v", "a", "i", "l", "a", "b", "l", "e", ":", " ",
            "T", "h", "e", " ", "p", "r", "e", "d", "i", "c", "t", "i",
            "o", "n", " ", "e", "n", "g", "i", "n", "e", " ", "i", "s",
            " ", "t", "e", "m", "p", "o", "r", "a", "r", "i", "l", "y",
            " ", "o", "f", "f", "l", "i", "n", "e", ".", " ", "P", "l",
            "e", "a", "s", "e", " ", "t", "r", "y", " ", "a", "g", "a",
            "i", "n", " ", "i", "n", " ", "a", " ", "f", "e", "w", " ",
            "m", "i", "n", "u", "t", "e", "s", "." >>,
     authentication |->
         << "A", "u", "t", "h", "e", "n", "t", "i", "c", "a", "t", "i",
            "o", "n", " ", "E", "r", "r", "o", "r", ":", " ", "T", "h",
            "e", " ", "A", "I", " ", "s", "e", "r", "v", "i", "c", "e",
            " ", "c", "o", "u", "l", "d", " ", "n", "o", "t", " ", "v",
            "e", "r", "i", "f", "y", " ", "y", "o", "u", "r", " ", "c",
            "r", "e", "d", "e", "n", "t", "i", "a", "l", "s", ".", " ",
            "P", "l", "e", "a", "s", "e", " ", "c", "h", "e", "c", "k",
            " ", "y", "o", "u", "r", " ", "c", "o", "n", "f", "i", "g",
            "u", "r", "a", "t", "i", "o", "n", "." >>,
     interpretation |->
         << "D", "a", "t", "a", " ", "I", "n", "t", "e", "r", "p", "r",
            "e", "t", "a", "t", "i", "o", "n", " ", "E", "r", "r", "o",
            "r", ":", " ", "T", "h", "e", " ", "A", "I", " ", "r", "e",
            "t", "u", "r", "n", "e", "d", " ", "a", "n", " ", "i", "n",
            "v", "a", "l", "i", "d", " ", "r", "e", "s", "p", "o", "n",
            "s", "e", " ", "f", "o", "r", "m", "a", "t", ".", " ", "T",
            "h", "i", "s", " ", "m", "a", "y", " ", "h", "a", "p", "p",
            "e", "n", " ", "w", "i", "t", "h", " ", "h", "i", "g", "h",
            "l", "y", " ", "u", "n", "u", "s", "u", "a", "l", " ", "d",
            "a", "t", "a", " ", "p", "a", "t", "t", "e", "r", "n", "s",
            "." >>,
     system |->
         << "A", "I", " ", "S", "y", "s", "t", "e", "m", " ", "E", "r",
            "r", "o", "r", ":", " " >>,
     unexpected |->
         << "A", "n", " ", "u", "n", "e", "x", "p", "e", "c", "t", "e",
            "d", " ", "e", "r", "r", "o", "r", " ", "o", "c", "c", "u",
            "r", "r", "e", "d", " ", "w", "h", "i", "l", "e", " ", "p",
            "r", "o", "c", "e", "s", "s", "i", "n", "g", " ", "y", "o",
            "u", "r", " ", "r", "e", "q", "u", "e", "s", "t", "." >>]

\* geminiService lines 71-89: the message of the error handleAIError throws
ThrownMessage(err) ==
    LET kind == handleAIError(err)
    IN  IF kind = "AI Rate Limit Exceeded" THEN ErrorTexts.rateLimit
        ELSE IF kind = "AI Service Unavailable" THEN ErrorTexts.unavailable
        ELSE IF kind = "Authentication Error" THEN ErrorTexts.authentication
        ELSE IF kind = "Data Interpretation Error" THEN ErrorTexts.interpretation
        ELSE ErrorTexts.system \o (IF err.message = Undefined \/ err.message = <<>>
                                   THEN ErrorTexts.unexpected
                                   ELSE err.message)

\* App.tsx line 168
ConnectionFailedText ==
    << "A", "I", " ", "C", "o", "n", "n", "e", "c", "t", "i", "o", "n",
       " ", "F", "a", "i", "l", "e", "d", ":", " ", "T", "h", "e", " ",
       "p", "r", "o", "v", "i", "d", "e", "d", " ", "A", "P", "I", " ",
       "K", "e", "y", " ", "i", "s", " ", "i", "n", "v", "a", "l", "i",
       "d", " ", "o", "r", " ", "h", "a", "s", " ", "e", "x", "p", "i",
       "r", "e", "d", "." >>

\* App.tsx line 166: msg.includes("API Key") || msg.includes("401") ||
\* msg.includes("403")
LooksLikeBadKey(msg) ==
    \/ Includes(msg, <<"A", "P", "I", " ", "K", "e", "y">>)
    \/ Includes(msg, <<"4", "0", "1">>)
    \/ Includes(msg, <<"4", "0", "3">>)

\* the upstream failure is one of authentication: its message holds api
\* key, 401 or 403, in any case of letters
IsAuthenticationFailure(err) ==
    /\ err.message # Undefined
    /\ \E sub \in ErrorMarkers.authentication :
           Includes(ToLowerCase(err.message), sub)

InitConnect ==
    /\ pc = "awaiting"
    /\ arg \in [message : {Join(ws, " ") : ws \in SeqsUpTo(ErrorWords, MaxWords)}
                           \cup {Undefined},
                 isSyntaxError : BOOLEAN]
    /\ ret2 \in BOOLEAN
    /\ ret = [isAiConnected |-> ret2, error |-> <<>>]
    /\ AppInit

\* the engine answers: geminiService line 149, App.tsx line 158
ForecastResolved ==
    /\ pc = "awaiting"
    /\ pc' = "resolved"
    /\ ret' = [ret EXCEPT !.isAiConnected = TRUE]
    /\ UNCHANGED <<arg, ret2, appVars>>

\* the engine fails with arg: geminiService lines 150-151, App.tsx lines
\* 164-171
ForecastRejected ==
    /\ pc = "awaiting"
    /\ pc' = "rejected"
    /\ LET msg == ThrownMessage(arg)
       IN  ret' = IF LooksLikeBadKey(msg)
                  THEN [isAiConnected |-> FALSE, error |-> ConnectionFailedText]
                  ELSE [isAiConnected |-> ret.isAiConnected, error |-> msg]
    /\ UNCHANGED <<arg, ret2, appVars>>

NextConnect == ForecastResolved \/ ForecastRejected

SpecConnect == InitConnect /\ [][NextConnect]_vars

\* C27 as stated: when the engine rejects a forecast request with an
\* authentication failure, handleRunForecast leaves isAiConnected false and
\* the AI Connection Failed error; after a successful forecast isAiConnected
\* is true.
C27_AuthenticationFailureDisconnects ==
    /\ (pc = "rejected" /\ IsAuthenticationFailure(arg)) =>
           /\ ret.isAiConnected = FALSE
           /\ ret.error = ConnectionFailedText
    /\ pc = "resolved" => ret.isAiConnected = TRUE

\* what the code does: a failed request never changes isAiConnected and
\* never shows AI Connection Failed; the error shown is the message of
\* handleAIError; a successful one sets isAiConnected
C27_FailureKeepsConnection ==
    /\ pc = "rejected" =>
           /\ ret.isAiConnected = ret2
           /\ ret.error = ThrownMessage(arg)
    /\ pc = "resolved" => ret.isAiConnected = TRUE /\ ret.error = <<>>

\* C28: the ForecastResult of a forecast call that succeeds carries the
\* partNumber, vendor and country of the filters of the request, whatever
\* key the answer of the engine carries; the step that stores it leaves it
\* as the last and only entry of allForecasts with that key, and leaves the
\* entries with other keys as they were, in the order they had.
C28_ResultCarriesRequestKey ==
    [][(pendingForecast # <<>> /\ pendingForecast' = <<>> /\ error' = <<>>) =>
           LET f == pendingForecast[1].filters
               old == allForecasts
               new == allForecasts'
               Other(p) == ~SameKey(p, f)
           IN  /\ Len(new) > 0
               /\ SameKey(new[Len(new)], f)
               /\ new[Len(new)].basis = pendingForecast[1].historicalData
               /\ \A i \in 1..Len(new) : SameKey(new[i], f) => i = Len(new)
               /\ SelectSeq(new, Other) = SelectSeq(old, Other)
               /\ Len(SelectSeq(new, Other)) = Len(new) - 1]_vars

\* a bulk run begun before the cleanse left forecasts for A and B from the
\* raw data; a forecast for A asked for after the cleanse replaced the entry
\* of A, after that of B
C28_Witness ==
    /\ pendingForecast = <<>>
    /\ isCleansed
    /\ cleansedData # data
    /\ Len(allForecasts) = 2
    /\ allForecasts[1].partNumber = "B"
    /\ allForecasts[1].basis = data
    /\ allForecasts[2].partNumber = "A"
    /\ allForecasts[2].basis = cleansedData
    /\ forecast = <<allForecasts[2]>>

(***************************************************************************)
(* Harness for the forecast export and import: up to MaxForecasts          *)
(* forecasts with pairwise distinct keys are written by exportForecasts    *)
(* (src/unnamed/part_000 lines 247-265) and the text is read by            *)
(* parseForecastCSV.                                                       *)
(***************************************************************************)
MaxForecasts == 3

\* forecasts as the engine returns them (predictedLeadTime is a NUMBER of
\* the response schema, geminiService line 127)
ExportedForecasts ==
    <<
       \* two points, whole lead times
       [partNumber |-> <<"S", "K", "U", "-", "1">>, vendor |-> <<"V", "1">>,
        country |-> <<"U", "S", "A">>,
        forecast |-> <<
           [date |-> <<"2", "0", "2", "6", "-", "1", "2", "-", "0", "1">>,
            predictedPrice |-> Whole(140), predictedLeadTime |-> Whole(15),
            confidenceIntervalUpper |-> Whole(145), confidenceIntervalLower |-> Whole(135)],
           [date |-> <<"2", "0", "2", "7", "-", "0", "1", "-", "0", "1">>,
            predictedPrice |-> Frac(283, 2), predictedLeadTime |-> Whole(16),
            confidenceIntervalUpper |-> Frac(2931, 20), confidenceIntervalLower |-> Whole(136)] >>],
       \* a lead time of 12.5 days
       [partNumber |-> <<"S", "K", "U", "-", "2">>, vendor |-> <<"V", "1">>,
        country |-> <<"U", "S", "A">>,
        forecast |-> <<
           [date |-> <<"2", "0", "2", "6", "-", "1", "2", "-", "0", "1">>,
            predictedPrice |-> Whole(90), predictedLeadTime |-> Frac(25, 2),
            confidenceIntervalUpper |-> Whole(95), confidenceIntervalLower |-> Whole(85)] >>],
       \* zeros
       [partNumber |-> <<"S", "K", "U", "-", "1">>, vendor |-> <<"V", "2">>,
        country |-> <<"D", "E">>,
        forecast |-> <<
           [date |-> <<"2", "0", "2", "6", "-", "1", "2", "-", "0", "1">>,
            predictedPrice |-> Whole(0), predictedLeadTime |-> Whole(0),
            confidenceIntervalUpper |-> Whole(0), confidenceIntervalLower |-> Whole(0)] >>],
       \* a negative lower bound
       [partNumber |-> <<"S", "K", "U", "-", "3">>, vendor |-> <<"V", "1">>,
        country |-> <<"U", "S", "A">>,
        forecast |-> <<
           [date |-> <<"2", "0", "2", "6", "-", "1", "2", "-", "0", "1">>,
            predictedPrice |-> Frac(361, 4), predictedLeadTime |-> Whole(30),
            confidenceIntervalUpper |-> Whole(95), confidenceIntervalLower |-> Frac(-1, 2)] >>],
       \* lead times of 20.75 and 7 days, the later date first
       [partNumber |-> <<"S", "K", "U", "-", "4">>, vendor |-> <<"V", "3">>,
        country |-> <<"M", "X">>,
        forecast |-> <<
           [date |-> <<"2", "0", "2", "7", "-", "0", "1", "-", "0", "1">>,
            predictedPrice |-> Whole(12), predictedLeadTime |-> Frac(83, 4),
            confidenceIntervalUpper |-> Whole(13), confidenceIntervalLower |-> Whole(11)],
           [date |-> <<"2", "0", "2", "6", "-", "1", "2", "-", "0", "1">>,
            predictedPrice |-> Whole(11), predictedLeadTime |-> Whole(7),
            confidenceIntervalUpper |-> Whole(12), confidenceIntervalLower |-> Whole(10)] >>] >>

\* part_000 lines 253-255, then r.join(',')
ExportRow(f, pt) ==
    Join(<< Quoted(f.partNumber), Quoted(f.vendor), Quoted(f.country), pt.date,
            NumberToString(pt.predictedPrice),
            NumberToString(pt.predictedLeadTime),
            NumberToString(pt.confidenceIntervalUpper),
            NumberToString(pt.confidenceIntervalLower) >>, ",")

\* part_000 lines 249-258: csvContent
ExportCSVOf(forecasts) ==
    Join(<<ForecastHeader>>
         \o Flatten([i \in 1..Len(forecasts) |->
                        [j \in 1..Len(forecasts[i].forecast) |->
                            ExportRow(forecasts[i], forecasts[i].forecast[j])]]),
         "\n")

InitExport ==
    /\ pc = "start"
    /\ arg \in {fs \in SeqsUpTo(Range(ExportedForecasts), MaxForecasts) :
                    \A i, j \in 1..Len(fs) : fs[i] = fs[j] => i = j}
    /\ ret = <<>>
    /\ ret2 = <<>>
    /\ AppInit

\* exportForecasts, which returns at line 248 when there is no forecast
ExportForecasts ==
    /\ pc = "start"
    /\ Len(arg) # 0
    /\ pc' = "exported"
    /\ ret' = ExportCSVOf(arg)
    /\ UNCHANGED <<arg, ret2, appVars>>

\* handleForecastUpload line 212 on the exported text
ImportForecasts ==
    /\ pc = "exported"
    /\ pc' = "imported"
    /\ ret2' = parseForecastCSV(ret)
    /\ UNCHANGED <<arg, ret, appVars>>

NextExport == ExportForecasts \/ ImportForecasts

SpecExport == InitExport /\ [][NextExport]_vars

\* the imported forecasts have the keys of the exported ones, in their
\* order, each with the same points
SameForecasts(imported, forecasts) ==
    /\ Len(imported) = Len(forecasts)
    /\ \A i \in 1..Len(forecasts) :
           /\ imported[i].partNumber = forecasts[i].partNumber
           /\ imported[i].vendor = forecasts[i].vendor
           /\ imported[i].country = forecasts[i].country
           /\ imported[i].forecast = forecasts[i].forecast

\* C29 as stated: for forecasts with pairwise distinct keys, reading with
\* parseForecastCSV the text exportForecasts writes gives the same keys in
\* the same order, each with the same points, whatever numbers the points
\* hold, lead times that are not whole included.
C29_ExportImportRoundTrip ==
    pc = "imported" => SameForecasts(ret2, arg)

\* every predictedLeadTime of the forecasts is a whole number
WholeLeadTimes(forecasts) ==
    \A i \in 1..Len(forecasts) : \A j \in 1..Len(forecasts[i].forecast) :
        forecasts[i].forecast[j].predictedLeadTime.d = 1

\* the round trip of forecasts whose lead times are whole
C29_RoundTripOfWholeLeadTimes ==
    (pc = "imported" /\ WholeLeadTimes(arg)) => SameForecasts(ret2, arg)

\* what the import does to the other forecasts: keys, order, number of
\* points and every value but the lead time come back; the lead time comes
\* back cut to its whole part
C29_LeadTimesTruncated ==
    pc = "imported" =>
        /\ Len(ret2) = Len(arg)
        /\ \A i \in 1..Len(arg) :
               /\ ret2[i].partNumber = arg[i].partNumber
               /\ ret2[i].vendor = arg[i].vendor
               /\ ret2[i].country = arg[i].country
               /\ Len(ret2[i].forecast) = Len(arg[i].forecast)
               /\ \A j \in 1..Len(arg[i].forecast) :
                      LET sent == arg[i].forecast[j]
                          got  == ret2[i].forecast[j]
                      IN  /\ got = [sent EXCEPT !.predictedLeadTime =
                                        got.predictedLeadTime]
                          /\ got.predictedLeadTime =
                                 Whole(sent.predictedLeadTime.n
                                           \div sent.predictedLeadTime.d)

\* C30 as stated: in every state, the effect of lines 126-139 having run,
\* the forecast displayed is null or carries the partNumber, vendor and
\* country of the filters.
C30_ForecastMatchesFilters ==
    forecast = <<>> \/ SameKey(forecast[1], filters)

\* C30 for a complete selection: with the three filters set, the forecast
\* displayed is null or carries their key
C30_MatchesCompleteSelection ==
    FiltersSet(filters) => (forecast = <<>> \/ SameKey(forecast[1], filters))

====
